---- MODULE Spec2Model ----
(***************************************************************************)
(* Verification model of the Intel GPU dashboard plugin core:              *)
(*   - the Kubernetes classification helpers (k8s.ts),                     *)
(*   - the Prometheus text parser and the GPU metric extractor             *)
(*     (api/metrics.ts).                                                   *)
(* Strings that the code inspects character by character (metric lines,    *)
(* resource keys) are sequences of one-character strings; strings that are *)
(* only compared for equality are TLA+ strings.                            *)
(***************************************************************************)
EXTENDS Integers, Sequences, FiniteSets, TLC

VARIABLES
    node,            \* argument of isIntelGpuNode
    nodeResult,      \* <<its return value>>, NoResult before the call
    plugin,          \* argument of pluginStatusToStatus
    pluginResult,    \* <<its return value>>, NoResult before the call
    exFamilies,      \* ParsedMetrics handed to extractGpuNodeMetrics
    exNodeName,      \* argument nodeName of extractGpuNodeMetrics
    exPodName,       \* argument podName of extractGpuNodeMetrics
    exResult,        \* <<the GpuNodeMetrics it returns>>, NoResult before the call
    text,            \* parsePrometheusText: the lines of the input (text.split('\n'))
    lineNo,          \* parsePrometheusText: index of the next line of the for loop
    families,        \* parsePrometheusText: the Map under construction
    currentName,     \* parsePrometheusText: local currentName
    currentHelp,     \* parsePrometheusText: local currentHelp
    currentType,     \* parsePrometheusText: local currentType
    sampleLines,     \* history: family key -> the line index of each of its samples
    calls,           \* number of parsePrometheusText calls started by the caller
    returned,        \* history: the <<text, returned Map>> of every completed call
    gpuNode,         \* argument of getNodeGpuCount and getNodeGpuType
    gpuCount,        \* <<return value of getNodeGpuCount>>
    gpuType,         \* <<return value of getNodeGpuType>>
    pod,             \* argument of isGpuRequestingPod and getPodGpuRequests
    requesting,      \* <<outcome of isGpuRequestingPod(pod)>>
    requests,        \* <<outcome of getPodGpuRequests(pod)>>
    input,           \* argument of the five classification predicates
    verdicts,        \* predicate name -> outcome, for the predicates called so far
    refreshKey,      \* IntelGpuDataProvider: state refreshKey
    runs,            \* IntelGpuDataProvider: one fetchAsync closure per effect run
    devicePlugins,   \* IntelGpuDataProvider: state devicePlugins
    crdAvailable,    \* IntelGpuDataProvider: state crdAvailable
    pluginPods,      \* IntelGpuDataProvider: state pluginPods
    asyncLoading,    \* IntelGpuDataProvider: state asyncLoading
    asyncError,      \* IntelGpuDataProvider: state asyncError
    shown,           \* history: the query responses behind the current pluginPods
    recording,       \* history: whether the behaviour keeps the history settled
    settled,         \* history: the outcomes of the requests of the latest effect run, while it is live
    pageNodes,       \* gpuNodes handed to OverviewPage and NodesPage by the context
    pagePods,        \* gpuPods handed to OverviewPage by the context
    overview,        \* <<the totals computed by OverviewPage>>
    tableData,       \* <<the rows computed by NodesPage>>
    fetchArgs,       \* fetchGpuPluginMetrics: its arguments podName, namespace, nodeName
    fetchPath,       \* fetchGpuPluginMetrics: <<the path requested>>
    fetchRaw,        \* history: <<the outcome of the awaited request>>
    fetchOutcome,    \* <<the settlement of the promise fetchGpuPluginMetrics returned>>
    cluster,         \* fetchGpuMetrics: what the API proxy answers to its requests
    gpuMetrics,      \* <<the settlement of the promise fetchGpuMetrics returned>>
    ctxLoading,      \* MetricsPage: loading of the context
    metrics,         \* MetricsPage: state metrics, <<>> for null
    fetchError,      \* MetricsPage: state fetchError, <<>> for null
    fetching,        \* MetricsPage: state fetching
    pending,         \* MetricsPage: number of doFetch calls awaiting fetchGpuMetrics
    completed        \* history: the fetchGpuMetrics outcome of every completed doFetch call

nodeVars == <<node, nodeResult>>
pluginVars == <<plugin, pluginResult>>
extractVars == <<exFamilies, exNodeName, exPodName, exResult>>
parseVars == <<text, lineNo, families, currentName, currentHelp, currentType, sampleLines>>
callVars == <<calls, returned>>
nodeInfoVars == <<gpuNode, gpuCount, gpuType>>
podVars == <<pod, requesting, requests>>
predicateVars == <<input, verdicts>>
providerVars == <<refreshKey, runs, devicePlugins, crdAvailable, pluginPods,
                  asyncLoading, asyncError, shown, recording, settled>>
pageVars == <<pageNodes, pagePods, overview, tableData>>
fetchVars == <<fetchArgs, fetchPath, fetchRaw, fetchOutcome>>
hwmonVars == <<cluster, gpuMetrics>>
metricsPageVars == <<ctxLoading, metrics, fetchError, fetching, pending, completed>>
monitorVars == <<fetchVars, hwmonVars, metricsPageVars>>

vars == <<nodeVars, pluginVars, extractVars, parseVars, callVars, nodeInfoVars,
          podVars, predicateVars, providerVars, pageVars, monitorVars>>

\* The variables the helpers of k8s.ts and metrics.ts never touch.
appVars ==
    <<callVars, nodeInfoVars, podVars, predicateVars, providerVars, pageVars, monitorVars>>

\* JavaScript's undefined and null.
Undefined == "undefined"
Null == "null"

\* A result variable holds <<>> until the call returns and <<value>> afterwards.
NoResult == <<>>
Returned(v) == <<v>>

Min(a, b) == IF a < b THEN a ELSE b

----------------------------------------------------------------------------
(***************************************************************************)
(* IEEE-754 double arithmetic of metrics.ts line 171:                      *)
(*     Math.min(100, Math.round((active.value / total) * 100))             *)
(* A non-zero double is [neg, mant, exp]: mant is its 53-bit significand,  *)
(* most significant bit first (mant[1] = 1), and its magnitude is          *)
(* mant * 2^exp.  The operands are integers (tick counters) below 2^18 in  *)
(* magnitude, so no result is subnormal or overflows.                      *)
(***************************************************************************)
MantissaBits == 53

\* Long division and multiplication work on digits of LimbBits bits, so that every
\* intermediate product stays below 2^31.
LimbBits == 13

Base == 2 ^ LimbBits

DZero == [zero |-> TRUE]

\* Binary digits of n (0 <= n < 2^31), most significant first; <<>> for 0.
NatToBits(n) ==
    IF n = 0 THEN <<>>
    ELSE LET len == CHOOSE l \in 1..31 : n \div (2 ^ (l - 1)) = 1
         IN [i \in 1..len |-> (n \div (2 ^ (len - i))) % 2]

RECURSIVE BitsToNat(_)
BitsToNat(bits) ==
    IF Len(bits) = 0 THEN 0
    ELSE IF Len(bits) = 1 THEN bits[1]
    ELSE LET h == Len(bits) \div 2
         IN BitsToNat(SubSeq(bits, 1, h)) * (2 ^ (Len(bits) - h))
              + BitsToNat(SubSeq(bits, h + 1, Len(bits)))

\* The bits of a sequence of digits, most significant digit first.
LimbsToBits(limbs) ==
    [i \in 1..(LimbBits * Len(limbs)) |->
        (limbs[((i - 1) \div LimbBits) + 1]
            \div (2 ^ (LimbBits - 1 - ((i - 1) % LimbBits)))) % 2]

\* The next k quotient digits of r / t (0 <= r < t < 2^18), and the remainder left.
RECURSIVE DivLimbs(_, _, _)
DivLimbs(r, t, k) ==
    IF k = 0 THEN [limbs |-> <<>>, rem |-> r]
    ELSE CHOOSE res \in {[limbs |-> <<(r * Base) \div t>> \o rest.limbs, rem |-> rest.rem] :
                            rest \in {DivLimbs((r * Base) % t, t, k - 1)}} : TRUE

\* bits + 1 on a sequence that is not all ones.
IncBits(bits) ==
    LET j == CHOOSE k \in 1..Len(bits) :
                 bits[k] = 0 /\ \A i \in (k + 1)..Len(bits) : bits[i] = 1
    IN [i \in 1..Len(bits) |-> IF i < j THEN bits[i] ELSE IF i = j THEN 1 ELSE 0]

\* Round to nearest, ties to even. all holds the exact significand bits from the
\* leading 1 on, and more says whether non-zero bits follow those of all; exp is
\* the exponent of bit MantissaBits of all.
RoundToDouble(neg, all, more, exp) ==
    LET mant == SubSeq(all, 1, MantissaBits)
        guard == all[MantissaBits + 1] = 1
        sticky == more \/ \E i \in (MantissaBits + 2)..Len(all) : all[i] = 1
        up == guard /\ (sticky \/ mant[MantissaBits] = 1)
    IN IF ~up THEN [zero |-> FALSE, neg |-> neg, mant |-> mant, exp |-> exp]
       ELSE IF \A i \in 1..MantissaBits : mant[i] = 1
            THEN [zero |-> FALSE, neg |-> neg,
                  mant |-> [i \in 1..MantissaBits |-> IF i = 1 THEN 1 ELSE 0],
                  exp |-> exp + 1]
            ELSE [zero |-> FALSE, neg |-> neg, mant |-> IncBits(mant), exp |-> exp]

\* num / den for integers num and den > 0 (both below 2^18 in magnitude),
\* correctly rounded.
DoubleDiv(num, den) ==
    IF num = 0 THEN DZero
    ELSE LET m == IF num < 0 THEN 0 - num ELSE num
             ip == NatToBits(m \div den)
             \* leading zero bits of the fraction when the integer part is 0
             z == IF m >= den THEN 0
                  ELSE CHOOSE s \in 0..31 : m * (2 ^ s) < den /\ m * (2 ^ (s + 1)) >= den
             d == DivLimbs((m % den) * (2 ^ z), den, 6)
             all == ip \o LimbsToBits(d.limbs)
         IN RoundToDouble(num < 0, all, d.rem # 0, 0 - ((MantissaBits - Len(ip)) + z))

\* limbs * c + carry for a small factor c, as digits.
RECURSIVE MulLimbs(_, _, _)
MulLimbs(limbs, c, carry) ==
    IF Len(limbs) = 0 THEN <<carry>>
    ELSE LET v == limbs[Len(limbs)] * c + carry
         IN Append(MulLimbs(SubSeq(limbs, 1, Len(limbs) - 1), c, v \div Base), v % Base)

\* x * 100, correctly rounded.
DoubleMul100(x) ==
    IF x.zero THEN DZero
    ELSE LET pad == 5 * LimbBits - MantissaBits
             padded == [i \in 1..(5 * LimbBits) |-> IF i <= pad THEN 0 ELSE x.mant[i - pad]]
             limbs == [j \in 1..5 |->
                          BitsToNat(SubSeq(padded, LimbBits * (j - 1) + 1, LimbBits * j))]
             bits == LimbsToBits(MulLimbs(limbs, 100, 0))
             first == CHOOSE f \in 1..Len(bits) :
                          bits[f] = 1 /\ \A i \in 1..(f - 1) : bits[i] = 0
             p == SubSeq(bits, first, Len(bits))
         IN RoundToDouble(x.neg, p, FALSE, x.exp + (Len(p) - MantissaBits))

\* Math.round: the nearest integer, a tie going towards +Infinity.
MathRound(x) ==
    IF x.zero THEN 0
    ELSE LET n == MantissaBits + x.exp          \* number of integer bits
             ipart == IF n >= 1 THEN BitsToNat(SubSeq(x.mant, 1, n)) ELSE 0
             half == IF n >= 0 /\ n < MantissaBits THEN x.mant[n + 1] ELSE 0
             below == \E i \in (n + 2)..MantissaBits : i >= 1 /\ x.mant[i] = 1
         IN IF x.neg
            THEN 0 - (ipart + (IF half = 1 /\ below THEN 1 ELSE 0))
            ELSE ipart + half

----------------------------------------------------------------------------
(***************************************************************************)
(* extractGpuNodeMetrics (api/metrics.ts): the utilization join.           *)
(***************************************************************************)
ACTIVE_TICKS == "gpu_i915_engine_active_ticks"
TOTAL_TICKS == "gpu_i915_engine_total_ticks"
BOOST_FREQ == "gpu_i915_gt_boost_freq_mhz"
MEMORY_LOCAL == "gpu_i915_memory_local"
MEMORY_SYSTEM == "gpu_i915_memory_system"
ENERGY == "gpu_i915_energy_microjoules"

\* Longest sample list of a family in the inputs explored.
MaxActive == 2
MaxTotal == 2

\* Tick values: a negative counter, a counter above its total, and 23/40, whose
\* exact percentage 57.5 is a rounding tie.
ActiveValues == {0 - 1, 23, 50}
TotalValues == {0, 40}

Labels(card, gpu, engine) ==
    [k \in ({"card" : x \in {card} \ {Undefined}}
              \cup {"gpu" : x \in {gpu} \ {Undefined}}
              \cup {"engine" : x \in {engine} \ {Undefined}}) |->
        IF k = "card" THEN card ELSE IF k = "gpu" THEN gpu ELSE engine]

ActiveLabelSets ==
    { Labels("card0", Undefined, "render/0"),
      Labels(Undefined, Undefined, "render/0"),
      Labels(Undefined, "card0", Undefined) }

TotalLabelSets ==
    { Labels("card0", Undefined, "render/0"),
      Labels(Undefined, Undefined, "render/0"),
      Labels(Undefined, "card0", "render/0") }

ActiveSampleSet == [labels : ActiveLabelSets, value : ActiveValues]
TotalSampleSet == [labels : TotalLabelSets, value : TotalValues]

SeqsUpTo(S, n) == UNION {[1..k -> S] : k \in 0..n}

\* A ParsedMetrics map: a family exists exactly when it has a sample.
MakeFamilies(act, tot) ==
    [name \in ({ACTIVE_TICKS : x \in {act} \ {<<>>}} \cup {TOTAL_TICKS : x \in {tot} \ {<<>>}}) |->
        [name |-> name, help |-> "", type |-> "",
         samples |-> IF name = ACTIVE_TICKS THEN act ELSE tot]]

\* labels[key] of a JavaScript record: undefined for a missing key.
Get(labels, key) == IF key \in DOMAIN labels THEN labels[key] ELSE Undefined

\* a ?? b
Nullish(x, dflt) == IF x = Undefined \/ x = Null THEN dflt ELSE x

samplesFor(fams, name) == IF name \in DOMAIN fams THEN fams[name].samples ELSE <<>>

\* (active.value / total) * 100 rounded by Math.round, for the tick values explored;
\* the table is computed once from the double arithmetic above.
RoundedPct ==
    [p \in ActiveValues \X {tv \in TotalValues : tv > 0} |->
        CHOOSE r \in {MathRound(y) : y \in {DoubleMul100(x) : x \in {DoubleDiv(p[1], p[2])}}} : TRUE]
    @@ <<>>      \* tabulates the function, so that each entry is computed once

\* total > 0 ? Math.min(100, Math.round((active.value / total) * 100)) : 0
PctOf(activeValue, total) ==
    IF total > 0 THEN Min(100, RoundedPct[<<activeValue, total>>]) ELSE 0

\* active.labels['card'] ?? active.labels['gpu'] ?? 'gpu0'
CardOf(sample) == Nullish(Nullish(Get(sample.labels, "card"), Get(sample.labels, "gpu")), "gpu0")

\* active.labels['engine'] ?? 'render/0'
EngineOf(sample) == Nullish(Get(sample.labels, "engine"), "render/0")

\* The predicate of totalSamples.find
TotalMatches(s, card, engine) ==
    /\ Nullish(Get(s.labels, "card"), Get(s.labels, "gpu")) = card
    /\ Get(s.labels, "engine") = engine

\* totalSamples.find(...): <<the first matching sample>>, or <<>> for undefined
FindTotal(totalSamples, card, engine) ==
    LET hits == {j \in 1..Len(totalSamples) : TotalMatches(totalSamples[j], card, engine)}
    IN IF hits = {} THEN <<>>
       ELSE <<totalSamples[CHOOSE j \in hits : \A h \in hits : j <= h]>>

\* One iteration of the loop over activeSamples: the entry pushed.
UtilizationEntry(active, totalSamples) ==
    LET card == CardOf(active)
        engine == EngineOf(active)
        totalSample == FindTotal(totalSamples, card, engine)
        total == IF totalSample = <<>> THEN 0 ELSE totalSample[1].value    \* ?.value ?? 0
    IN [card |-> card, engine |-> engine, pct |-> PctOf(active.value, total)]

\* Variant that skips an active sample for which find returns undefined.
EngineUtilizationSkippingUnmatched(activeSamples, totalSamples) ==
    LET keep(sample) == FindTotal(totalSamples, CardOf(sample), EngineOf(sample)) # <<>>
        kept == SelectSeq(activeSamples, keep)
    IN [i \in 1..Len(kept) |-> UtilizationEntry(kept[i], totalSamples)]

EngineUtilization(activeSamples, totalSamples) ==
    [i \in 1..Len(activeSamples) |-> UtilizationEntry(activeSamples[i], totalSamples)]

\* Variant of the mapping that prefers the gpu label to the card label.
CardValueGpuFirst(s) ==
    [card |-> Nullish(Nullish(Get(s.labels, "gpu"), Get(s.labels, "card")), "gpu0"),
     value |-> s.value]

\* s => ({ card: s.labels['card'] ?? s.labels['gpu'] ?? 'gpu0', value: s.value })
CardValue(s) == [card |-> CardOf(s), value |-> s.value]

\* samplesFor(families, name).map(s => ...)
CardValues(fams, name) ==
    LET samples == samplesFor(fams, name)
    IN [i \in 1..Len(samples) |-> CardValue(samples[i])]

extractGpuNodeMetrics(fams, nodeName, podName) ==
    [nodeName |-> nodeName,
     podName |-> podName,
     engineUtilization |->
        EngineUtilization(samplesFor(fams, ACTIVE_TICKS), samplesFor(fams, TOTAL_TICKS)),
     boostFreqMhz |-> CardValues(fams, BOOST_FREQ),
     memoryLocalBytes |-> CardValues(fams, MEMORY_LOCAL),
     memorySystemBytes |-> CardValues(fams, MEMORY_SYSTEM),
     energyMicrojoules |-> CardValues(fams, ENERGY),
     raw |-> fams]

NodeIdle == node = <<>> /\ nodeResult = NoResult
PluginIdle == plugin = <<>> /\ pluginResult = NoResult
ExtractIdle == exFamilies = <<>> /\ exNodeName = "" /\ exPodName = "" /\ exResult = NoResult
ParseIdle ==
    /\ text = <<>> /\ lineNo = 1 /\ families = <<>>
    /\ currentName = <<>> /\ currentHelp = <<>> /\ currentType = <<>> /\ sampleLines = <<>>
CallsIdle == calls = 0 /\ returned = <<>>
NodeInfoIdle == gpuNode = <<>> /\ gpuCount = NoResult /\ gpuType = NoResult
PodIdle == pod = <<>> /\ requesting = NoResult /\ requests = NoResult
PredicatesIdle == input = <<>> /\ verdicts = <<>>
ProviderIdle ==
    /\ refreshKey = 0 /\ runs = <<>> /\ devicePlugins = <<>> /\ crdAvailable = FALSE
    /\ pluginPods = <<>> /\ asyncLoading = FALSE /\ asyncError = <<>> /\ shown = <<>>
    /\ recording = FALSE /\ settled = <<>>
FetchIdle == fetchArgs = <<>> /\ fetchPath = <<>> /\ fetchRaw = <<>> /\ fetchOutcome = <<>>
HwmonIdle == cluster = <<>> /\ gpuMetrics = <<>>
MetricsPageIdle ==
    /\ ctxLoading = FALSE /\ metrics = <<>> /\ fetchError = <<>> /\ fetching = FALSE
    /\ pending = 0 /\ completed = <<>>
MonitorIdle == FetchIdle /\ HwmonIdle /\ MetricsPageIdle
PagesIdle == pageNodes = <<>> /\ pagePods = <<>> /\ overview = NoResult /\ tableData = NoResult
AppIdle ==
    /\ CallsIdle /\ NodeInfoIdle /\ PodIdle /\ PredicatesIdle /\ ProviderIdle /\ PagesIdle
    /\ MonitorIdle

InitExtract ==
    /\ \E act \in SeqsUpTo(ActiveSampleSet, MaxActive), tot \in SeqsUpTo(TotalSampleSet, MaxTotal) :
          exFamilies = MakeFamilies(act, tot)
    /\ exNodeName = "node-a"
    /\ exPodName = "intel-gpu-plugin-a"
    /\ exResult = NoResult
    /\ NodeIdle /\ PluginIdle /\ ParseIdle /\ AppIdle

\* The call extractGpuNodeMetrics(families, nodeName, podName).
Extract ==
    /\ exResult = NoResult
    /\ exResult' = Returned(extractGpuNodeMetrics(exFamilies, exNodeName, exPodName))
    /\ UNCHANGED <<exFamilies, exNodeName, exPodName, nodeVars, pluginVars, parseVars, appVars>>

NextExtract == Extract

SpecExtract == InitExtract /\ [][NextExtract]_vars

----------------------------------------------------------------------------
(***************************************************************************)
(* JavaScript values handed to the classification helpers of k8s.ts.       *)
(* A value is [type, falsy] with type its typeof string; an object also    *)
(* has fields, a function from its own keys to their values.  A property   *)
(* read gives <<>> for undefined and <<v>> for the value v.                *)
(***************************************************************************)
JsNull == [type |-> "object", falsy |-> TRUE]
JsUndefined == [type |-> "undefined", falsy |-> TRUE]
JsObject(fields) == [type |-> "object", falsy |-> FALSE, fields |-> fields]

\* null, undefined, '', 'node', 0, 1, false, true
Primitives ==
    {JsNull, JsUndefined} \cup [type : {"string", "number", "boolean"}, falsy : BOOLEAN]

\* obj[key]
Field(obj, key) == IF key \in DOMAIN obj THEN <<obj[key]>> ELSE <<>>

\* opt?.[key]
Chain(opt, key) == IF opt = <<>> THEN <<>> ELSE Field(opt[1], key)

\* All functions from a subset of keys to values.
PartialMaps(keys, values) == UNION {[ks -> values] : ks \in SUBSET keys}

\* str.startsWith(prefix)
startsWith(str, prefix) ==
    Len(str) >= Len(prefix) /\ SubSeq(str, 1, Len(prefix)) = prefix

INTEL_GPU_RESOURCE_PREFIX == <<"g", "p", "u", ".", "i", "n", "t", "e", "l", ".", "c", "o", "m", "/">>
INTEL_GPU_RESOURCE == INTEL_GPU_RESOURCE_PREFIX \o <<"i", "9", "1", "5">>
INTEL_GPU_XE_RESOURCE == INTEL_GPU_RESOURCE_PREFIX \o <<"x", "e">>
INTEL_GPU_NODE_LABEL == "intel.feature.node.kubernetes.io/gpu"
INTEL_DISCRETE_GPU_NODE_ROLE == "node-role.kubernetes.io/gpu"
INTEL_INTEGRATED_GPU_NODE_ROLE == "node-role.kubernetes.io/igpu"

\* Capacity keys of the nodes explored: two GPU resources, cpu, the prefix without
\* its slash, and a key that contains the prefix but does not start with it.
ResourceKeys ==
    { INTEL_GPU_RESOURCE, INTEL_GPU_XE_RESOURCE, <<"c", "p", "u">>,
      <<"g", "p", "u", ".", "i", "n", "t", "e", "l", ".", "c", "o", "m">>,
      <<"x">> \o INTEL_GPU_RESOURCE }

GpuLabels == {INTEL_GPU_NODE_LABEL, INTEL_DISCRETE_GPU_NODE_ROLE, INTEL_INTEGRATED_GPU_NODE_ROLE}

NodeMetadata == PartialMaps({"labels"}, PartialMaps(GpuLabels, {"true", "false"}))

NodeStatus ==
    { [k \in ({"capacity" : x \in c} \cup {"allocatable" : x \in a}) |->
          IF k = "capacity" THEN (CHOOSE x \in c : TRUE) ELSE (CHOOSE x \in a : TRUE)] :
        c \in {{}} \cup {{m} : m \in PartialMaps(ResourceKeys, {"1"})},
        a \in {{}, {[k \in {INTEL_GPU_RESOURCE} |-> "1"]}} }

NodeObjects ==
    { JsObject([k \in ({"metadata" : x \in m} \cup {"status" : x \in st}) |->
          IF k = "metadata" THEN (CHOOSE x \in m : TRUE) ELSE (CHOOSE x \in st : TRUE)]) :
        m \in {{}} \cup {{x} : x \in NodeMetadata},
        st \in {{}} \cup {{x} : x \in NodeStatus} }

\* Variant that also accepts a GPU resource listed under status.allocatable.
isIntelGpuNodeOrAllocatable(n) ==
    IF n.falsy \/ n.type # "object" THEN FALSE
    ELSE LET labels == Chain(Field(n.fields, "metadata"), "labels")
             capacity == Chain(Field(n.fields, "status"), "capacity")
             allocatable == Chain(Field(n.fields, "status"), "allocatable")
         IN \/ /\ labels # <<>>
               /\ \E l \in GpuLabels : Field(labels[1], l) = <<"true">>
            \/ /\ capacity # <<>>
               /\ \E key \in DOMAIN capacity[1] : startsWith(key, INTEL_GPU_RESOURCE_PREFIX)
            \/ /\ allocatable # <<>>
               /\ \E key \in DOMAIN allocatable[1] : startsWith(key, INTEL_GPU_RESOURCE_PREFIX)

isIntelGpuNode(n) ==
    IF n.falsy \/ n.type # "object" THEN FALSE
    ELSE LET labels == Chain(Field(n.fields, "metadata"), "labels")
             capacity == Chain(Field(n.fields, "status"), "capacity")
         IN \/ /\ labels # <<>>
               /\ \/ Field(labels[1], INTEL_GPU_NODE_LABEL) = <<"true">>
                  \/ Field(labels[1], INTEL_DISCRETE_GPU_NODE_ROLE) = <<"true">>
                  \/ Field(labels[1], INTEL_INTEGRATED_GPU_NODE_ROLE) = <<"true">>
            \/ /\ capacity # <<>>
               /\ \E key \in DOMAIN capacity[1] : startsWith(key, INTEL_GPU_RESOURCE_PREFIX)

InitNode ==
    /\ node \in Primitives \cup NodeObjects
    /\ nodeResult = NoResult
    /\ PluginIdle /\ ExtractIdle /\ ParseIdle /\ AppIdle

\* The call isIntelGpuNode(node).
CallIsIntelGpuNode ==
    /\ nodeResult = NoResult
    /\ nodeResult' = Returned(isIntelGpuNode(node))
    /\ UNCHANGED <<node, pluginVars, extractVars, parseVars, appVars>>

NextNode == CallIsIntelGpuNode

SpecNode == InitNode /\ [][NextNode]_vars

\* Properties of isIntelGpuNode.
IsNodeObject == node.type = "object" /\ ~node.falsy
HasLabels == IsNodeObject /\ "metadata" \in DOMAIN node.fields /\ "labels" \in DOMAIN node.fields["metadata"]
NodeLabels == node.fields["metadata"]["labels"]
HasCapacity == IsNodeObject /\ "status" \in DOMAIN node.fields /\ "capacity" \in DOMAIN node.fields["status"]
NodeCapacity == node.fields["status"]["capacity"]
HasAllocatable == IsNodeObject /\ "status" \in DOMAIN node.fields /\ "allocatable" \in DOMAIN node.fields["status"]
IsGpuKey(key) ==
    /\ Len(key) >= Len(INTEL_GPU_RESOURCE_PREFIX)
    /\ \A i \in 1..Len(INTEL_GPU_RESOURCE_PREFIX) : key[i] = INTEL_GPU_RESOURCE_PREFIX[i]
SomeGpuLabelTrue == HasLabels /\ \E l \in GpuLabels : l \in DOMAIN NodeLabels /\ NodeLabels[l] = "true"
SomeGpuCapacityKey == HasCapacity /\ \E key \in DOMAIN NodeCapacity : IsGpuKey(key)

\* C1: isIntelGpuNode(n) is true if and only if n is an object with one of the
\* three GPU labels equal to "true" or with a status.capacity key starting with
\* gpu.intel.com/; other label values and keys of status.allocatable do not count.
C1_GpuNodeIffLabelOrCapacity ==
    nodeResult # NoResult => (nodeResult[1] <=> (SomeGpuLabelTrue \/ SomeGpuCapacityKey))

\* A node whose GPU labels are present with the value "false", whose GPU resource
\* is listed only under allocatable, and which is classified false.
C1_Witness ==
    /\ nodeResult = <<FALSE>>
    /\ HasLabels /\ DOMAIN NodeLabels = GpuLabels
    /\ HasCapacity /\ NodeCapacity # <<>>
    /\ HasAllocatable

----------------------------------------------------------------------------
(***************************************************************************)
(* pluginStatusToStatus (k8s.ts).                                          *)
(***************************************************************************)
\* Largest value of a status counter in the plugins explored.
MaxCount == 2

StatusCounters == {"desiredNumberScheduled", "numberReady", "numberUnavailable"}

\* A GpuDevicePlugin: its optional status, with each counter optional.
Plugins ==
    { [k \in {"status" : x \in st} |-> CHOOSE x \in st : TRUE] :
        st \in {{}} \cup {{x} : x \in PartialMaps(StatusCounters, 0..MaxCount)} }

\* plugin.status?.[counter] ?? 0
Counter(p, counter) ==
    LET v == Chain(Field(p, "status"), counter) IN IF v = <<>> THEN 0 ELSE v[1]

\* Variant that compares ready with desired before looking at unavailable.
pluginStatusToStatusReadyFirst(p) ==
    LET desired == Counter(p, "desiredNumberScheduled")
        ready == Counter(p, "numberReady")
        unavailable == Counter(p, "numberUnavailable")
    IN IF desired = 0 THEN "warning"
       ELSE IF ready = desired THEN "success"
       ELSE IF unavailable > 0 THEN "warning"
       ELSE "error"

pluginStatusToStatus(p) ==
    LET desired == Counter(p, "desiredNumberScheduled")
        ready == Counter(p, "numberReady")
        unavailable == Counter(p, "numberUnavailable")
    IN IF desired = 0 THEN "warning"
       ELSE IF unavailable > 0 THEN "warning"
       ELSE IF ready = desired THEN "success"
       ELSE "error"

InitPlugin ==
    /\ plugin \in Plugins
    /\ pluginResult = NoResult
    /\ NodeIdle /\ ExtractIdle /\ ParseIdle /\ AppIdle

\* The call pluginStatusToStatus(plugin).
CallPluginStatusToStatus ==
    /\ pluginResult = NoResult
    /\ pluginResult' = Returned(pluginStatusToStatus(plugin))
    /\ UNCHANGED <<plugin, nodeVars, extractVars, parseVars, appVars>>

NextPlugin == CallPluginStatusToStatus

SpecPlugin == InitPlugin /\ [][NextPlugin]_vars

\* A counter of the plugin as the specification reads it: 0 when missing.
Reported(counter) ==
    IF "status" \in DOMAIN plugin /\ counter \in DOMAIN plugin["status"]
    THEN plugin["status"][counter] ELSE 0

\* C2: desired = 0 gives warning; otherwise unavailable > 0 gives warning;
\* otherwise ready = desired gives success; otherwise error.
C2_StatusChecksInOrder ==
    pluginResult # NoResult =>
        pluginResult[1] =
            CASE Reported("desiredNumberScheduled") = 0 -> "warning"
              [] Reported("desiredNumberScheduled") # 0 /\ Reported("numberUnavailable") > 0 -> "warning"
              [] /\ Reported("desiredNumberScheduled") # 0
                 /\ ~(Reported("numberUnavailable") > 0)
                 /\ Reported("numberReady") = Reported("desiredNumberScheduled") -> "success"
              [] OTHER -> "error"

\* All desired pods ready, yet one unavailable: the result is warning, not success.
C2_Witness ==
    /\ pluginResult = <<"warning">>
    /\ Reported("desiredNumberScheduled") > 0
    /\ Reported("numberReady") = Reported("desiredNumberScheduled")
    /\ Reported("numberUnavailable") > 0

----------------------------------------------------------------------------
(***************************************************************************)
(* parsePrometheusText (api/metrics.ts).  The state is that of the for     *)
(* loop over text.split('\n'): one step handles one line.                  *)
(***************************************************************************)
\* Longest input, in lines.
MaxLines == 3

\* The lines the inputs are made of.
Lines ==
    {
      <<>>,    \* '' : the empty text is the single line ''
      <<"#", " ", "c">>,    \* '# c'
      <<"#", " ", "H", "E", "L", "P", " ", "a", " ", "h">>,    \* '# HELP a h'
      <<"#", " ", "H", "E", "L", "P", " ", "b", " ", "g">>,    \* '# HELP b g'
      <<"#", " ", "T", "Y", "P", "E", " ", "a", " ", "g", "a", "u", "g", "e">>,    \* '# TYPE a gauge'
      <<"#", " ", "T", "Y", "P", "E", " ", "b", " ", "c", "o", "u", "n", "t", "e", "r">>,    \* '# TYPE b counter'
      <<"a", " ", "1">>,    \* 'a 1'
      <<"b", " ", "2">>,    \* 'b 2'
      <<"a", "{", "x", "=", "\"", "y", "\"", "}", " ", "3">>,    \* 'a{x="y"} 3'
      <<"a", "{", "x", "=", "\"", "y", "\"", "}">>,    \* 'a{x="y"}' : label block, no value
      <<"a", " ", "1", " ", "5">>,    \* 'a 1 5' : value and timestamp
      <<"a", " ", "N", "a", "N">>,    \* 'a NaN'
      <<"a", " ", "N", "a", "N", " ", "5">>,    \* 'a NaN 5'
      <<"b", " ", "I", "n", "f", "i", "n", "i", "t", "y">>,    \* 'b Infinity'
      <<" ", "a">>    \* ' a' : no label block and, once trimmed, no space
    }

Whitespace == {" "}
Digits == {"0", "1", "2", "3", "4", "5", "6", "7", "8", "9"}
DigitValue(c) ==
    CASE c = "0" -> 0 [] c = "1" -> 1 [] c = "2" -> 2 [] c = "3" -> 3 [] c = "4" -> 4
      [] c = "5" -> 5 [] c = "6" -> 6 [] c = "7" -> 7 [] c = "8" -> 8 [] c = "9" -> 9

\* \w of LABEL_PAIR_RE
WordChars ==
    { "a", "b", "c", "d", "e", "f", "g", "h", "i", "j", "k", "l", "m", "n", "o", "p",
      "q", "r", "s", "t", "u", "v", "w", "x", "y", "z", "A", "B", "C", "D", "E", "F",
      "G", "H", "I", "J", "K", "L", "M", "N", "O", "P", "Q", "R", "S", "T", "U", "V",
      "W", "X", "Y", "Z", "0", "1", "2", "3", "4", "5", "6", "7", "8", "9", "_" }

\* JavaScript string operations, with JavaScript's 0-based indices.
slice(str, from, to) == SubSeq(str, from + 1, to)
sliceFrom(str, from) == SubSeq(str, from + 1, Len(str))

indexOf(str, ch) ==
    IF \E i \in 1..Len(str) : str[i] = ch
    THEN (CHOOSE i \in 1..Len(str) : str[i] = ch /\ \A h \in 1..(i - 1) : str[h] # ch) - 1
    ELSE 0 - 1

lastIndexOf(str, ch) ==
    IF \E i \in 1..Len(str) : str[i] = ch
    THEN (CHOOSE i \in 1..Len(str) : str[i] = ch /\ \A h \in (i + 1)..Len(str) : str[h] # ch) - 1
    ELSE 0 - 1

trim(str) ==
    LET inked == {i \in 1..Len(str) : str[i] \notin Whitespace}
    IN IF inked = {} THEN <<>>
       ELSE SubSeq(str, CHOOSE i \in inked : \A h \in inked : i <= h,
                        CHOOSE i \in inked : \A h \in inked : i >= h)

\* str.split(' ')[0] ?? ''
FirstToken(str) ==
    IF indexOf(str, " ") >= 0 THEN slice(str, 0, indexOf(str, " ")) ELSE str

RECURSIVE DigitsToNat(_)
DigitsToNat(ds) ==
    IF ds = <<>> THEN 0
    ELSE 10 * DigitsToNat(SubSeq(ds, 1, Len(ds) - 1)) + DigitValue(ds[Len(ds)])

\* parseFloat(str) followed by Number.isFinite: the number read from the longest
\* numeric prefix of str, [finite |-> FALSE] for NaN and for +-Infinity.  The value
\* tokens of Lines hold digits, signs and letters other than e: the fraction and
\* the exponent of a decimal literal do not occur and are not modelled.
parseFloat(str) ==
    LET s == trim(str)
        signed == s # <<>> /\ s[1] \in {"+", "-"}
        body == IF signed THEN sliceFrom(s, 1) ELSE s
        nonDigits == {i \in 1..Len(body) : body[i] \notin Digits}
        digits == IF nonDigits = {} THEN body
                  ELSE SubSeq(body, 1, (CHOOSE i \in nonDigits : \A h \in nonDigits : i <= h) - 1)
    IN IF digits = <<>> THEN [finite |-> FALSE]
       ELSE [finite |-> TRUE,
             num |-> IF signed /\ s[1] = "-" THEN 0 - DigitsToNat(digits) ELSE DigitsToNat(digits)]

\* The first match of LABEL_PAIR_RE = /(\w+)="([^"]*)"/g at or after position pos
\* (1-based): <<start of key, end of key, closing quote>>, or <<>>.
LabelMatch(str, pos) ==
    LET runEnd(st) == CHOOSE e \in st..Len(str) :
                          /\ \A i \in st..e : str[i] \in WordChars
                          /\ e = Len(str) \/ str[e + 1] \notin WordChars
        closing(e) == {q \in (e + 3)..Len(str) : str[q] = "\""}
        matches(st) == /\ str[st] \in WordChars
                       /\ runEnd(st) + 2 <= Len(str)
                       /\ str[runEnd(st) + 1] = "="
                       /\ str[runEnd(st) + 2] = "\""
                       /\ closing(runEnd(st)) # {}
        starts == {st \in pos..Len(str) : matches(st)}
    IN IF starts = {} THEN <<>>
       ELSE LET st == CHOOSE x \in starts : \A h \in starts : x <= h
                e == runEnd(st)
            IN <<st, e, CHOOSE q \in closing(e) : \A h \in closing(e) : q <= h>>

\* The while loop of parseLabels: a later pair with the same key overwrites.
RECURSIVE parseLabelsFrom(_, _, _)
parseLabelsFrom(str, pos, labels) ==
    LET m == LabelMatch(str, pos)
    IN IF m = <<>> THEN labels
       ELSE LET key == SubSeq(str, m[1], m[2])
                val == SubSeq(str, m[2] + 3, m[3] - 1)
            IN parseLabelsFrom(str, m[3] + 1,
                   [k \in DOMAIN labels \cup {key} |-> IF k = key THEN val ELSE labels[k]])

parseLabels(labelStr) == parseLabelsFrom(labelStr, 1, <<>>)

HELP_PREFIX == <<"#", " ", "H", "E", "L", "P", " ">>
TYPE_PREFIX == <<"#", " ", "T", "Y", "P", "E", " ">>

\* Lines 102-124: what a line that is no comment contributes: <<>> when the loop
\* continues without a sample, else <<[metricName, labels, value]>>.
DataLine(line) ==
    LET openBrace == indexOf(line, "{")
        closeBrace == lastIndexOf(line, "}")
        braces == openBrace >= 0 /\ closeBrace > openBrace
        spaceIdx == lastIndexOf(line, " ")
        metricName == IF braces THEN slice(line, 0, openBrace) ELSE slice(line, 0, spaceIdx)
        labels == IF braces THEN parseLabels(slice(line, openBrace + 1, closeBrace)) ELSE <<>>
        valuePart == IF braces THEN trim(sliceFrom(line, closeBrace + 1))
                     ELSE trim(sliceFrom(line, spaceIdx + 1))
        value == parseFloat(FirstToken(valuePart))
    IN IF ~braces /\ spaceIdx < 0 THEN <<>>
       ELSE IF ~value.finite THEN <<>>
       ELSE <<[metricName |-> metricName, labels |-> labels, value |-> value.num]>>

\* The state of the loop.
ParserState(fams, name, help, type) ==
    [families |-> fams, currentName |-> name, currentHelp |-> help, currentType |-> type]

\* Variant in which a '# HELP ' line creates the family it names.
OnHelpCreatingFamily(st, line) ==
    LET rest == sliceFrom(line, 7)
        spaceIdx == indexOf(rest, " ")
        name == IF spaceIdx >= 0 THEN slice(rest, 0, spaceIdx) ELSE rest
        help == IF spaceIdx >= 0 THEN sliceFrom(rest, spaceIdx + 1) ELSE <<>>
    IN ParserState([k \in DOMAIN st.families \cup {name} |->
                       IF k \in DOMAIN st.families THEN st.families[k]
                       ELSE [name |-> name, help |-> help, type |-> <<>>, samples |-> <<>>]],
                   name, help, st.currentType)

\* Lines 85-91: a '# HELP ' line.
OnHelp(st, line) ==
    LET rest == sliceFrom(line, 7)
        spaceIdx == indexOf(rest, " ")
    IN ParserState(st.families,
                   IF spaceIdx >= 0 THEN slice(rest, 0, spaceIdx) ELSE rest,
                   IF spaceIdx >= 0 THEN sliceFrom(rest, spaceIdx + 1) ELSE <<>>,
                   st.currentType)

\* Lines 93-98: a '# TYPE ' line.
OnType(st, line) ==
    LET rest == sliceFrom(line, 7)
        spaceIdx == indexOf(rest, " ")
    IN ParserState(st.families, st.currentName, st.currentHelp,
                   IF spaceIdx >= 0 THEN sliceFrom(rest, spaceIdx + 1) ELSE <<>>)

\* Variant that rewrites help and type of the family on every sample.
OnSampleRefreshingMetadata(st, d) ==
    LET key == d.metricName
        named == key = st.currentName
        old == IF key \in DOMAIN st.families THEN st.families[key].samples ELSE <<>>
        family == [name |-> key,
                   help |-> IF named THEN st.currentHelp ELSE <<>>,
                   type |-> IF named THEN st.currentType ELSE <<>>,
                   samples |-> Append(old, [labels |-> d.labels, value |-> d.value])]
    IN ParserState([k \in DOMAIN st.families \cup {key} |->
                       IF k = key THEN family ELSE st.families[k]],
                   st.currentName, st.currentHelp, st.currentType)

\* Lines 126-138: the family is created at its first sample, then only appended to.
OnSample(st, d) ==
    LET key == d.metricName
        named == key = st.currentName
        family == IF key \in DOMAIN st.families THEN st.families[key]
                  ELSE [name |-> key,
                        help |-> IF named THEN st.currentHelp ELSE <<>>,
                        type |-> IF named THEN st.currentType ELSE <<>>,
                        samples |-> <<>>]
        pushed == [family EXCEPT !.samples = Append(@, [labels |-> d.labels, value |-> d.value])]
    IN ParserState([k \in DOMAIN st.families \cup {key} |->
                       IF k = key THEN pushed ELSE st.families[k]],
                   st.currentName, st.currentHelp, st.currentType)

\* The body of the for loop, lines 81-139.
ParseStep(st, rawLine) ==
    LET line == trim(rawLine)
    IN IF line = <<>> THEN st
       ELSE IF startsWith(line, HELP_PREFIX) THEN OnHelp(st, line)
       ELSE IF startsWith(line, TYPE_PREFIX) THEN OnType(st, line)
       ELSE IF startsWith(line, <<"#">>) THEN st
       ELSE IF DataLine(line) = <<>> THEN st
       ELSE OnSample(st, DataLine(line)[1])

InitParse ==
    /\ text \in UNION {[1..n -> Lines] : n \in 1..MaxLines}
    /\ lineNo = 1
    /\ families = <<>>
    /\ currentName = <<>> /\ currentHelp = <<>> /\ currentType = <<>>
    /\ sampleLines = <<>>
    /\ NodeIdle /\ PluginIdle /\ ExtractIdle /\ AppIdle

\* One iteration of the for loop; the function returns families after the last.
ParseLine ==
    /\ lineNo <= Len(text)
    /\ LET st == ParseStep(ParserState(families, currentName, currentHelp, currentType),
                           text[lineNo])
       IN /\ families' = st.families
          /\ currentName' = st.currentName
          /\ currentHelp' = st.currentHelp
          /\ currentType' = st.currentType
          /\ sampleLines' =
                [k \in DOMAIN st.families |->
                    IF k \notin DOMAIN families THEN <<lineNo>>
                    ELSE IF Len(st.families[k].samples) > Len(families[k].samples)
                         THEN Append(sampleLines[k], lineNo)
                    ELSE sampleLines[k]]
    /\ lineNo' = lineNo + 1
    /\ UNCHANGED <<text, nodeVars, pluginVars, extractVars, appVars>>

NextParse == ParseLine

SpecParse == InitParse /\ [][NextParse]_vars

----------------------------------------------------------------------------
(***************************************************************************)
(* Properties of the utilization join.                                     *)
(***************************************************************************)
ExtractDone == exResult # NoResult
ActiveIn == IF ACTIVE_TICKS \in DOMAIN exFamilies THEN exFamilies[ACTIVE_TICKS].samples ELSE <<>>
TotalIn == IF TOTAL_TICKS \in DOMAIN exFamilies THEN exFamilies[TOTAL_TICKS].samples ELSE <<>>
UtilOut == exResult[1].engineUtilization

\* The card and engine of a sample as the specification resolves them.
ResolvedCard(sample) ==
    IF "card" \in DOMAIN sample.labels THEN sample.labels["card"]
    ELSE IF "gpu" \in DOMAIN sample.labels THEN sample.labels["gpu"]
    ELSE "gpu0"

ResolvedEngine(sample) ==
    IF "engine" \in DOMAIN sample.labels THEN sample.labels["engine"] ELSE "render/0"

\* A total sample is of the series of an active sample: same resolved card, and a
\* raw engine label equal to the active sample's resolved engine.
SameSeries(active, total) ==
    /\ ResolvedCard(total) = ResolvedCard(active)
    /\ "engine" \in DOMAIN total.labels
    /\ total.labels["engine"] = ResolvedEngine(active)

\* Index of the first total sample of the series of active, 0 when there is none.
FirstOfSeries(active, totals) ==
    IF \E j \in 1..Len(totals) : SameSeries(active, totals[j])
    THEN CHOOSE j \in 1..Len(totals) :
             /\ SameSeries(active, totals[j])
             /\ \A h \in 1..(j - 1) : ~SameSeries(active, totals[h])
    ELSE 0

\* C3: extractGpuNodeMetrics returns exactly one engineUtilization entry per
\* active-ticks sample, in the order of the active samples, each with the sample's
\* card (label card, else gpu, else gpu0) and engine (label engine, else render/0);
\* an active sample that no total sample matches is kept, with pct = 0.
C3_OneEntryPerActiveSample ==
    ExtractDone =>
        /\ Len(UtilOut) = Len(ActiveIn)
        /\ \A i \in 1..Len(ActiveIn) :
              /\ UtilOut[i].card = ResolvedCard(ActiveIn[i])
              /\ UtilOut[i].engine = ResolvedEngine(ActiveIn[i])
              /\ FirstOfSeries(ActiveIn[i], TotalIn) = 0 => UtilOut[i].pct = 0

\* Two active samples, the first unmatched and kept with pct 0, the second matched
\* with a non-zero percentage.
C3_Witness ==
    /\ ExtractDone
    /\ Len(ActiveIn) = 2 /\ Len(UtilOut) = 2
    /\ FirstOfSeries(ActiveIn[1], TotalIn) = 0 /\ UtilOut[1].pct = 0
    /\ FirstOfSeries(ActiveIn[2], TotalIn) # 0 /\ UtilOut[2].pct # 0
    /\ UtilOut[1].card # UtilOut[2].card

\* C4: every entry of engineUtilization has 0 <= pct <= 100, whatever the values
\* of the samples.
C4_PctWithinRange ==
    ExtractDone => \A i \in 1..Len(UtilOut) : UtilOut[i].pct >= 0 /\ UtilOut[i].pct <= 100

\* C5: an active sample of value a whose matching total has value t > 0, with
\* 0 <= a <= t, gets pct = round(100 * a / t), halves rounded up; with t = 0 it
\* gets pct = 0.  (Stated for the samples whose matching total is the same under
\* the code's and the specification's matching rule.)
C5_PctIsRoundedRatio ==
    ExtractDone =>
        \A i \in 1..Len(ActiveIn) :
            LET j == FirstOfSeries(ActiveIn[i], TotalIn)
                av == ActiveIn[i].value
            IN (j # 0 /\ FindTotal(TotalIn, CardOf(ActiveIn[i]), EngineOf(ActiveIn[i])) = <<TotalIn[j]>>) =>
                  LET tv == TotalIn[j].value
                  IN /\ (tv > 0 /\ 0 <= av /\ av <= tv) =>
                            UtilOut[i].pct = (200 * av + tv) \div (2 * tv)
                     /\ tv = 0 => UtilOut[i].pct = 0

\* C6: the total sample used for an active sample is the first total sample whose
\* card (label card, else gpu, else gpu0) equals the active sample's card and whose
\* raw engine label equals the active sample's engine.
C6_TotalChosenWithCardFallback ==
    ExtractDone =>
        \A i \in 1..Len(ActiveIn) :
            LET j == FirstOfSeries(ActiveIn[i], TotalIn)
            IN UtilOut[i].pct = PctOf(ActiveIn[i].value, IF j = 0 THEN 0 ELSE TotalIn[j].value)

----------------------------------------------------------------------------
(***************************************************************************)
(* Properties of parsePrometheusText.  A line is read here as the          *)
(* exposition format defines it: tokens separated by spaces.               *)
(***************************************************************************)
\* The space-separated tokens of a line.
RECURSIVE Tokens(_)
Tokens(str) ==
    IF str = <<>> THEN <<>>
    ELSE IF str[1] = " " THEN Tokens(SubSeq(str, 2, Len(str)))
    ELSE LET stops == {i \in 1..Len(str) : str[i] = " "}
             stop == IF stops = {} THEN Len(str) + 1
                     ELSE CHOOSE i \in stops : \A h \in stops : i <= h
         IN <<SubSeq(str, 1, stop - 1)>> \o Tokens(SubSeq(str, stop + 1, Len(str)))

\* A token that writes a finite number: an optional minus sign and digits.
IsNumeral(tok) ==
    LET ds == IF tok # <<>> /\ tok[1] = "-" THEN SubSeq(tok, 2, Len(tok)) ELSE tok
    IN ds # <<>> /\ \A i \in 1..Len(ds) : ds[i] \in Digits

RECURSIVE NumeralValue(_)
NumeralValue(tok) ==
    IF tok = <<>> THEN 0
    ELSE IF tok[1] = "-" THEN 0 - NumeralValue(SubSeq(tok, 2, Len(tok)))
    ELSE NumeralValue(SubSeq(tok, 1, Len(tok) - 1)) * 10
           + (CHOOSE v \in 0..9 : DigitValue(tok[Len(tok)]) = v)

HasChar(str, ch) == \E i \in 1..Len(str) : str[i] = ch
IsComment(line) == Tokens(line) # <<>> /\ Tokens(line)[1][1] = "#"
IsHelpLine(line) == Len(Tokens(line)) >= 3 /\ Tokens(line)[1] = <<"#">> /\ Tokens(line)[2] = <<"H", "E", "L", "P">>
IsTypeLine(line) == Len(Tokens(line)) >= 3 /\ Tokens(line)[1] = <<"#">> /\ Tokens(line)[2] = <<"T", "Y", "P", "E">>
\* The metric a # HELP or # TYPE line names.
NamedBy(line) == Tokens(line)[3]

\* The lines already handled by the loop.
Handled == 1..(lineNo - 1)

\* 'name value timestamp', without a label block.
IsNameValueTimestamp(line) ==
    /\ ~HasChar(line, "{") /\ ~IsComment(line)
    /\ Len(Tokens(line)) = 3
    /\ IsNumeral(Tokens(line)[2]) /\ IsNumeral(Tokens(line)[3])

\* C7: a data line 'name value timestamp' without a label block records one sample
\* in the family keyed name, with value value: the timestamp is not taken as the
\* value and the value does not become part of the family name.
C7_PlainSampleWithTimestamp ==
    \A k \in Handled :
        IsNameValueTimestamp(text[k]) =>
            LET tk == Tokens(text[k])
            IN /\ tk[1] \in DOMAIN families
               /\ \E i \in 1..Len(families[tk[1]].samples) :
                     /\ sampleLines[tk[1]][i] = k
                     /\ families[tk[1]].samples[i].value = NumeralValue(tk[2])
               /\ (tk[1] \o <<" ">> \o tk[2]) \notin DOMAIN families

\* The last # HELP (# TYPE) line before line c, 0 when there is none.
LastHelpBefore(c) ==
    LET ks == {k \in 1..(c - 1) : IsHelpLine(text[k])}
    IN IF ks = {} THEN 0 ELSE CHOOSE k \in ks : \A h \in ks : k >= h

LastTypeBefore(c) ==
    LET ks == {k \in 1..(c - 1) : IsTypeLine(text[k])}
    IN IF ks = {} THEN 0 ELSE CHOOSE k \in ks : \A h \in ks : k >= h

\* C8: a family's help is non-empty only if the most recent # HELP line before its
\* first sample named it, its type is non-empty only if the most recent # TYPE
\* line before its first sample named it, and a family that no earlier metadata
\* comment names has empty help and type.
C8_MetadataOnlyFromCommentsNamingTheFamily ==
    \A n \in DOMAIN families :
        LET c == sampleLines[n][1]
        IN /\ families[n].help # <<>> =>
                 LastHelpBefore(c) # 0 /\ NamedBy(text[LastHelpBefore(c)]) = n
           /\ families[n].type # <<>> =>
                 LastTypeBefore(c) # 0 /\ NamedBy(text[LastTypeBefore(c)]) = n
           /\ (\A k \in 1..(c - 1) :
                  (IsHelpLine(text[k]) \/ IsTypeLine(text[k])) => NamedBy(text[k]) # n)
                 => families[n].help = <<>> /\ families[n].type = <<>>

\* C9: once a family exists, no later line changes its help or type: later samples
\* of the name are appended to its samples, and later # HELP or # TYPE lines for
\* the name leave help and type as they were at creation.
C9_MetadataFrozenAfterCreation ==
    [][\A n \in DOMAIN families :
          /\ n \in DOMAIN families'
          /\ families'[n].help = families[n].help
          /\ families'[n].type = families[n].type
          /\ Len(families'[n].samples) >= Len(families[n].samples)
          /\ SubSeq(families'[n].samples, 1, Len(families[n].samples)) = families[n].samples]_vars

\* A family created without help, then named by a # HELP line with a help text,
\* then given a second sample: its help is still empty.
C9_Witness ==
    \E n \in DOMAIN families :
        \E k \in Handled :
            /\ sampleLines[n][1] < k
            /\ IsHelpLine(text[k]) /\ NamedBy(text[k]) = n /\ Len(Tokens(text[k])) >= 4
            /\ Len(sampleLines[n]) >= 2 /\ sampleLines[n][2] > k
            /\ families[n].help = <<>>

\* A line that is neither blank nor a comment and has no finite value: with a
\* label block, the first token after the block is missing or no numeral; without,
\* the line has no second token or its second token is no numeral.
Malformed(line) ==
    /\ Tokens(line) # <<>> /\ ~IsComment(line)
    /\ IF HasChar(line, "{") /\ lastIndexOf(line, "}") > indexOf(line, "{")
       THEN LET tail == Tokens(SubSeq(line, lastIndexOf(line, "}") + 2, Len(line)))
            IN tail = <<>> \/ ~IsNumeral(tail[1])
       ELSE Len(Tokens(line)) < 2 \/ ~IsNumeral(Tokens(line)[2])

\* C10: a non-comment line whose value token is missing or not a finite number, or
\* which has neither a label block nor a space, contributes no sample and creates
\* no family; a text of such lines only yields an empty map.
C10_MalformedLinesContributeNothing ==
    /\ \A n \in DOMAIN families :
          \A i \in 1..Len(sampleLines[n]) : ~Malformed(text[sampleLines[n][i]])
    /\ (\A k \in Handled : Malformed(text[k])) => families = <<>>

----------------------------------------------------------------------------
(***************************************************************************)
(* Repeated calls of parsePrometheusText.  JavaScript runs one call to     *)
(* completion before the next one starts; every call declares its own Map  *)
(* and its own currentName, currentHelp and currentType (lines 76-79) and  *)
(* parseLabels builds its own RegExp (line 64).                            *)
(***************************************************************************)
MaxCalls == 3

CallLines ==
    { <<"#", " ", "H", "E", "L", "P", " ", "a", " ", "h">>,    \* '# HELP a h'
      <<"#", " ", "T", "Y", "P", "E", " ", "a", " ", "g", "a", "u", "g", "e">>,    \* '# TYPE a gauge'
      <<"a", "{", "x", "=", "\"", "y", "\"", "}", " ", "3">> }    \* 'a{x="y"} 3'

\* The texts handed to the parser: one or two of the lines above.
CallTexts == {<<l>> : l \in CallLines} \cup {<<l, m>> : l \in CallLines, m \in CallLines}

InitCalls ==
    /\ calls = 0 /\ returned = <<>>
    /\ ParseIdle
    /\ NodeIdle /\ MonitorIdle /\ PluginIdle /\ ExtractIdle
    /\ NodeInfoIdle /\ PodIdle /\ PredicatesIdle /\ ProviderIdle /\ PagesIdle

\* Variant whose currentName, currentHelp and currentType live outside the
\* function and survive from one call to the next.
CallKeepingLocals(t) ==
    /\ calls < MaxCalls
    /\ Len(returned) = calls
    /\ calls' = calls + 1
    /\ text' = t
    /\ lineNo' = 1
    /\ families' = <<>>
    /\ sampleLines' = <<>>
    /\ UNCHANGED <<currentName, currentHelp, currentType, returned, nodeVars, monitorVars, pluginVars,
                   extractVars, nodeInfoVars, podVars, predicateVars, providerVars, pageVars>>

\* Entry of parsePrometheusText(t): lines 76-79 and text.split('\n').
CallParsePrometheusText(t) ==
    /\ calls < MaxCalls
    /\ Len(returned) = calls
    /\ calls' = calls + 1
    /\ text' = t
    /\ lineNo' = 1
    /\ families' = <<>>
    /\ currentName' = <<>> /\ currentHelp' = <<>> /\ currentType' = <<>>
    /\ sampleLines' = <<>>
    /\ UNCHANGED <<returned, nodeVars, monitorVars, pluginVars, extractVars, nodeInfoVars, podVars,
                   predicateVars, providerVars, pageVars>>

\* return families (line 141), after the last iteration of the loop.
ReturnFamilies ==
    /\ Len(returned) < calls
    /\ lineNo > Len(text)
    /\ returned' = Append(returned, <<text, families>>)
    /\ UNCHANGED <<calls, parseVars, nodeVars, monitorVars, pluginVars, extractVars, nodeInfoVars, podVars,
                   predicateVars, providerVars, pageVars>>

NextCalls ==
    \/ \E t \in CallTexts : CallParsePrometheusText(t)
    \/ ParseLine
    \/ ReturnFamilies

SpecCalls == InitCalls /\ [][NextCalls]_vars

\* C11: parsePrometheusText keeps no state between calls: any two completed calls
\* on the same text, whatever calls ran in between, returned the same families
\* with the same help, type and samples in the same order.
C11_SameTextSameFamilies ==
    \A i, j \in 1..Len(returned) :
        returned[i][1] = returned[j][1] => returned[i][2] = returned[j][2]

\* Three completed calls: the first and the third on the same text, which yields a
\* family, and a different text parsed in between.
C11_Witness ==
    /\ Len(returned) = 3
    /\ returned[1][1] = returned[3][1]
    /\ returned[2][1] # returned[1][1]
    /\ returned[1][2] # <<>>

----------------------------------------------------------------------------
(***************************************************************************)
(* getNodeGpuCount and getNodeGpuType (k8s.ts).  A JavaScript number that  *)
(* may be NaN is [nan, n]; the numbers added here are integers far below   *)
(* 2^53, so the additions are exact.                                       *)
(***************************************************************************)
NaN == [nan |-> TRUE, n |-> 0]
Num(k) == [nan |-> FALSE, n |-> k]

\* a + b
JsAdd(a, b) == IF a.nan \/ b.nan THEN NaN ELSE Num(a.n + b.n)

\* a || 0
OrZero(a) == IF a.nan \/ a.n = 0 THEN Num(0) ELSE a

\* parseInt(str, 10): leading white space is skipped, then an optional sign and the
\* longest run of decimal digits are read; NaN when there is no digit.
parseInt(str) ==
    LET inked == {i \in 1..Len(str) : str[i] \notin Whitespace}
        s == IF inked = {} THEN <<>>
             ELSE SubSeq(str, CHOOSE i \in inked : \A h \in inked : i <= h, Len(str))
        signed == s # <<>> /\ s[1] \in {"+", "-"}
        body == IF signed THEN sliceFrom(s, 1) ELSE s
        nonDigits == {i \in 1..Len(body) : body[i] \notin Digits}
        digits == IF nonDigits = {} THEN body
                  ELSE SubSeq(body, 1, (CHOOSE i \in nonDigits : \A h \in nonDigits : i <= h) - 1)
    IN IF digits = <<>> THEN NaN
       ELSE IF signed /\ s[1] = "-" THEN Num(0 - DigitsToNat(digits))
       ELSE Num(DigitsToNat(digits))

\* The sum of term[k] over the keys k, added one entry after the other.
RECURSIVE SumEntries(_, _)
SumEntries(keys, term) ==
    IF keys = {} THEN Num(0)
    ELSE LET k == CHOOSE x \in keys : TRUE
         IN JsAdd(SumEntries(keys \ {k}, term), term[k])

INTEL_GPU_MILLICORES_RESOURCE == INTEL_GPU_RESOURCE_PREFIX \o <<"m", "i", "l", "l", "i", "c", "o", "r", "e", "s">>

\* Quantities found under a resource key: '3', '12', '', 'x', '2x', ' 1'.
Quantities == { <<"3">>, <<"1", "2">>, <<>>, <<"x">>, <<"2", "x">>, <<" ", "1">> }

CapacityKeys == { INTEL_GPU_RESOURCE, INTEL_GPU_XE_RESOURCE, INTEL_GPU_MILLICORES_RESOURCE }

\* The nodes of the IntelGpuNode type explored: metadata with or without labels,
\* with or without status, status with or without capacity.
GpuNodes ==
    { JsObject([k \in ({"metadata"} \cup {"status" : x \in st}) |->
          IF k = "metadata" THEN m ELSE (CHOOSE x \in st : TRUE)]) :
        m \in NodeMetadata,
        st \in {{}, {<<>>}} \cup {{[capacity |-> c]} : c \in PartialMaps(CapacityKeys, Quantities)} }

\* Variant that counts every gpu.intel.com/* resource of the capacity.
getNodeGpuCountOfAllGpuKeys(n) ==
    LET found == Chain(Field(n.fields, "status"), "capacity")
        capacity == IF found = <<>> THEN <<>> ELSE found[1]
        term == [key \in DOMAIN capacity |->
                    IF startsWith(key, INTEL_GPU_RESOURCE_PREFIX) /\ capacity[key] # <<>>
                    THEN OrZero(parseInt(capacity[key]))
                    ELSE Num(0)]
    IN SumEntries(DOMAIN capacity, term)

getNodeGpuCount(n) ==
    LET found == Chain(Field(n.fields, "status"), "capacity")
        capacity == IF found = <<>> THEN <<>> ELSE found[1]
        term == [key \in DOMAIN capacity |->
                    IF (key = INTEL_GPU_RESOURCE \/ key = INTEL_GPU_XE_RESOURCE)
                       /\ capacity[key] # <<>>
                    THEN OrZero(parseInt(capacity[key]))
                    ELSE Num(0)]
    IN SumEntries(DOMAIN capacity, term)

\* Variant that tests the integrated role before the discrete role.
getNodeGpuTypeIntegratedFirst(n) ==
    LET found == Field(n.fields["metadata"], "labels")
        labels == IF found = <<>> THEN <<>> ELSE found[1]
    IN IF Field(labels, INTEL_INTEGRATED_GPU_NODE_ROLE) = <<"true">> THEN "integrated"
       ELSE IF Field(labels, INTEL_DISCRETE_GPU_NODE_ROLE) = <<"true">> THEN "discrete"
       ELSE IF Field(labels, INTEL_GPU_NODE_LABEL) = <<"true">> THEN "unknown"
       ELSE "unknown"

getNodeGpuType(n) ==
    LET found == Field(n.fields["metadata"], "labels")
        labels == IF found = <<>> THEN <<>> ELSE found[1]
    IN IF Field(labels, INTEL_DISCRETE_GPU_NODE_ROLE) = <<"true">> THEN "discrete"
       ELSE IF Field(labels, INTEL_INTEGRATED_GPU_NODE_ROLE) = <<"true">> THEN "integrated"
       ELSE IF Field(labels, INTEL_GPU_NODE_LABEL) = <<"true">> THEN "unknown"
       ELSE "unknown"

InitNodeInfo ==
    /\ gpuNode \in GpuNodes
    /\ gpuCount = NoResult /\ gpuType = NoResult
    /\ NodeIdle /\ MonitorIdle /\ PluginIdle /\ ExtractIdle /\ ParseIdle
    /\ CallsIdle /\ PodIdle /\ PredicatesIdle /\ ProviderIdle /\ PagesIdle

\* The call getNodeGpuCount(gpuNode).
CallGetNodeGpuCount ==
    /\ gpuCount = NoResult
    /\ gpuCount' = Returned(getNodeGpuCount(gpuNode))
    /\ UNCHANGED <<gpuNode, gpuType, nodeVars, monitorVars, pluginVars, extractVars, parseVars, callVars,
                   podVars, predicateVars, providerVars, pageVars>>

\* The call getNodeGpuType(gpuNode).
CallGetNodeGpuType ==
    /\ gpuType = NoResult
    /\ gpuType' = Returned(getNodeGpuType(gpuNode))
    /\ UNCHANGED <<gpuNode, gpuCount, nodeVars, monitorVars, pluginVars, extractVars, parseVars, callVars,
                   podVars, predicateVars, providerVars, pageVars>>

NextNodeInfo == CallGetNodeGpuCount \/ CallGetNodeGpuType

SpecNodeInfo == InitNodeInfo /\ [][NextNodeInfo]_vars

\* Properties of getNodeGpuCount and getNodeGpuType.
GpuNodeHasCapacity == "status" \in DOMAIN gpuNode.fields /\ "capacity" \in DOMAIN gpuNode.fields["status"]
GpuNodeCapacity == gpuNode.fields["status"]["capacity"]

\* The integer a quantity stands for; 0 for an empty or non-numeric one.
QuantityValue(q) ==
    CASE q = <<"3">> -> 3
      [] q = <<"1", "2">> -> 12
      [] q = <<"2", "x">> -> 2
      [] q = <<" ", "1">> -> 1
      [] OTHER -> 0

DeviceCount(key) ==
    IF GpuNodeHasCapacity /\ key \in DOMAIN GpuNodeCapacity
    THEN QuantityValue(GpuNodeCapacity[key]) ELSE 0

\* C12: getNodeGpuCount(node) is the sum of the integer-parsed capacity values of
\* gpu.intel.com/i915 and gpu.intel.com/xe, a missing, empty or non-numeric value
\* counting 0; no other key counts, and a node without status or capacity gives 0.
C12_CountIsSumOfI915AndXe ==
    gpuCount # NoResult =>
        /\ ~gpuCount[1].nan
        /\ gpuCount[1].n = DeviceCount(<<"g", "p", "u", ".", "i", "n", "t", "e", "l", ".", "c", "o", "m", "/", "i", "9", "1", "5">>)
                           + DeviceCount(<<"g", "p", "u", ".", "i", "n", "t", "e", "l", ".", "c", "o", "m", "/", "x", "e">>)

\* A node with i915 = '3', xe = '12' and a non-zero millicores quantity, counted 15.
C12_Witness ==
    /\ gpuCount = <<Num(15)>>
    /\ GpuNodeHasCapacity
    /\ DOMAIN GpuNodeCapacity = CapacityKeys
    /\ GpuNodeCapacity[INTEL_GPU_MILLICORES_RESOURCE] = <<"3">>

GpuNodeLabelIsTrue(l) ==
    /\ "labels" \in DOMAIN gpuNode.fields["metadata"]
    /\ l \in DOMAIN gpuNode.fields["metadata"]["labels"]
    /\ gpuNode.fields["metadata"]["labels"][l] = "true"

\* C13: getNodeGpuType gives discrete whenever node-role.kubernetes.io/gpu is
\* "true", also when the igpu role is "true" as well; integrated when only the igpu
\* role is "true"; unknown otherwise, the generic label and missing labels included.
C13_TypeByLabelPriority ==
    gpuType # NoResult =>
        gpuType[1] =
            IF GpuNodeLabelIsTrue("node-role.kubernetes.io/gpu") THEN "discrete"
            ELSE IF GpuNodeLabelIsTrue("node-role.kubernetes.io/igpu") THEN "integrated"
            ELSE "unknown"

\* A node with both role labels "true", classified discrete.
C13_Witness ==
    /\ gpuType = <<"discrete">>
    /\ GpuNodeLabelIsTrue("node-role.kubernetes.io/gpu")
    /\ GpuNodeLabelIsTrue("node-role.kubernetes.io/igpu")

----------------------------------------------------------------------------
(***************************************************************************)
(* isGpuRequestingPod and getPodGpuRequests (k8s.ts).  An array is an      *)
(* object with items.  A call either returns a value or throws the         *)
(* TypeError JavaScript raises on reading a property of null or undefined  *)
(* and on spreading a value that is not iterable.                          *)
(***************************************************************************)
MaxContainers == 2

JsArray(items) == [type |-> "object", falsy |-> FALSE, items |-> items]
IsArray(v) == v.type = "object" /\ ~v.falsy /\ "items" \in DOMAIN v
IsPlainObject(v) == v.type = "object" /\ ~v.falsy /\ "fields" \in DOMAIN v
IsNullish(v) == v.falsy /\ v.type \in {"object", "undefined"}

Ok(v) == [threw |-> FALSE, value |-> v]
Threw == [threw |-> TRUE]

JsNumber == [type |-> "number", falsy |-> FALSE]
JsString == [type |-> "string", falsy |-> FALSE]

\* requests and limits of the containers explored; the quantities are '1', '2',
\* '' and 'x'.
RequestMaps ==
    { <<>>,
      [k \in {INTEL_GPU_RESOURCE} |-> <<"1">>],
      [k \in {INTEL_GPU_RESOURCE} |-> <<"2">>],
      [k \in {INTEL_GPU_RESOURCE} |-> <<>>],
      [k \in {INTEL_GPU_RESOURCE} |-> <<"x">>],
      [k \in {<<"c", "p", "u">>} |-> <<"1">>],
      [k \in {INTEL_GPU_RESOURCE, INTEL_GPU_MILLICORES_RESOURCE} |-> <<"1">>] }

LimitMaps == { [k \in {INTEL_GPU_XE_RESOURCE} |-> <<"1">>] }

\* ResourceRequirements: requests and limits are both optional.
ResourceRequirements ==
    { [k \in ({"requests" : x \in r} \cup {"limits" : x \in l}) |->
          IF k = "requests" THEN (CHOOSE x \in r : TRUE) ELSE (CHOOSE x \in l : TRUE)] :
        r \in {{}} \cup {{x} : x \in RequestMaps},
        l \in {{}} \cup {{x} : x \in LimitMaps} }

\* ContainerSpec: resources is optional.
ContainerSpecs ==
    {JsObject(<<>>)} \cup {JsObject([resources |-> r]) : r \in ResourceRequirements}

\* What a containers list of a malformed record may hold besides containers.
ContainerEntries == ContainerSpecs \cup {JsNull, JsNumber}

\* Values of spec.containers: a list, or a number, a string or a plain object.
ContainersValues ==
    {JsArray(s) : s \in SeqsUpTo(ContainerEntries, MaxContainers)}
        \cup {JsNull, JsNumber, JsString, JsObject(<<>>)}

\* Values of spec.initContainers.
InitContainersValues ==
    { JsArray(<<>>),
      JsArray(<<JsObject([resources |-> [requests |-> [k \in {INTEL_GPU_RESOURCE} |-> <<"2">>]]])>>),
      JsArray(<<JsObject([resources |-> [limits |-> [k \in {INTEL_GPU_RESOURCE} |-> <<"1">>]]])>>),
      JsArray(<<JsNull>>),
      JsNumber }

PodSpecs ==
    { [k \in ({"containers" : x \in c} \cup {"initContainers" : x \in i}) |->
          IF k = "containers" THEN (CHOOSE x \in c : TRUE) ELSE (CHOOSE x \in i : TRUE)] :
        c \in {{}} \cup {{x} : x \in ContainersValues},
        i \in {{}} \cup {{x} : x \in InitContainersValues} }

\* The pod records explored: without spec, with spec null, with a spec.
Pods ==
    {JsObject(<<>>), JsObject([spec |-> JsNull])}
        \cup {JsObject([spec |-> JsObject(s)]) : s \in PodSpecs}

\* spec?.[key] ?? [] : the value under key, [] when spec or the value is nullish.
OrEmptyList(specOpt, key) ==
    IF specOpt = <<>> \/ ~IsPlainObject(specOpt[1]) THEN JsArray(<<>>)
    ELSE LET found == Field(specOpt[1].fields, key)
         IN IF found = <<>> \/ IsNullish(found[1]) THEN JsArray(<<>>) ELSE found[1]

\* Whether [...v] throws.
NotIterable(v) == ~IsArray(v) /\ v.type # "string"

\* The elements [...v] contributes: the items of an array, the characters of a
\* string (the string explored is 'node').
Spread(v) ==
    IF IsArray(v) THEN v.items
    ELSE IF v.falsy THEN <<>>
    ELSE <<JsString, JsString, JsString, JsString>>

\* c.resources?.[part] ?? {} for a container c that is not nullish.
ResourcePart(c, part) ==
    IF ~IsPlainObject(c) THEN <<>>
    ELSE LET found == Chain(Field(c.fields, "resources"), part)
         IN IF found = <<>> THEN <<>> ELSE found[1]

\* Variant of the callback of some() that looks at the requests only.
RequestsGpuIgnoringLimits(c) ==
    \E k \in DOMAIN ResourcePart(c, "requests") : startsWith(k, INTEL_GPU_RESOURCE_PREFIX)

\* The callback of some() (lines 255-261) applied to a container that is not nullish.
RequestsGpu(c) ==
    \E k \in DOMAIN ResourcePart(c, "requests") \cup DOMAIN ResourcePart(c, "limits") :
        startsWith(k, INTEL_GPU_RESOURCE_PREFIX)

\* some() calls the callback on the elements in order and stops at the first that
\* returns true; the callback throws on a null or undefined element.
isGpuRequestingPod(p) ==
    IF p.falsy \/ p.type # "object" THEN Ok(FALSE)
    ELSE LET spec == IF IsPlainObject(p) THEN Field(p.fields, "spec") ELSE <<>>
             containers == OrEmptyList(spec, "containers")
             initContainers == OrEmptyList(spec, "initContainers")
         IN IF NotIterable(containers) \/ NotIterable(initContainers) THEN Threw
            ELSE LET all == Spread(containers) \o Spread(initContainers)
                     hits == {i \in 1..Len(all) : ~IsNullish(all[i]) /\ RequestsGpu(all[i])}
                     bad == {i \in 1..Len(all) : IsNullish(all[i])}
                 IN IF \E b \in bad : \A h \in hits : b < h THEN Threw
                    ELSE Ok(hits # {})

\* Decimal digits of a natural number, and String(v) of an integer.
DigitChar(d) ==
    CASE d = 0 -> "0" [] d = 1 -> "1" [] d = 2 -> "2" [] d = 3 -> "3" [] d = 4 -> "4"
      [] d = 5 -> "5" [] d = 6 -> "6" [] d = 7 -> "7" [] d = 8 -> "8" [] d = 9 -> "9"

RECURSIVE NatToDigits(_)
NatToDigits(k) ==
    IF k < 10 THEN <<DigitChar(k)>> ELSE Append(NatToDigits(k \div 10), DigitChar(k % 10))

String(v) ==
    IF v.nan THEN <<"N", "a", "N">>
    ELSE IF v.n < 0 THEN <<"-">> \o NatToDigits(0 - v.n)
    ELSE NatToDigits(v.n)

\* Variant of the inner loop that counts every request key.
AddRequestsAnyKey(totals, reqs) ==
    LET counted == {k \in DOMAIN reqs : reqs[k] # <<>>}
    IN [k \in DOMAIN totals \cup counted |->
            JsAdd(IF k \in DOMAIN totals THEN totals[k] ELSE Num(0),
                  IF k \in counted THEN OrZero(parseInt(reqs[k])) ELSE Num(0))]

\* The inner loop of getPodGpuRequests (lines 293-297) over one container's requests.
AddRequests(totals, reqs) ==
    LET counted == {k \in DOMAIN reqs :
                        startsWith(k, INTEL_GPU_RESOURCE_PREFIX) /\ reqs[k] # <<>>}
    IN [k \in DOMAIN totals \cup counted |->
            JsAdd(IF k \in DOMAIN totals THEN totals[k] ELSE Num(0),
                  IF k \in counted THEN OrZero(parseInt(reqs[k])) ELSE Num(0))]

\* The outer loop (lines 291-298) over containers that are not nullish.
RECURSIVE SumRequests(_, _)
SumRequests(totals, cs) ==
    IF cs = <<>> THEN totals
    ELSE SumRequests(AddRequests(totals, ResourcePart(cs[1], "requests")), Tail(cs))

getPodGpuRequests(p) ==
    LET spec == Field(p.fields, "spec")
        containers == OrEmptyList(spec, "containers")
        initContainers == OrEmptyList(spec, "initContainers")
    IN IF NotIterable(containers) \/ NotIterable(initContainers) THEN Threw
       ELSE LET all == Spread(containers) \o Spread(initContainers)
            IN IF \E i \in 1..Len(all) : IsNullish(all[i]) THEN Threw
               ELSE LET totals == SumRequests(<<>>, all)
                    IN Ok([k \in DOMAIN totals |-> String(totals[k])])

InitPod ==
    /\ pod \in Pods
    /\ requesting = NoResult /\ requests = NoResult
    /\ NodeIdle /\ MonitorIdle /\ PluginIdle /\ ExtractIdle /\ ParseIdle
    /\ CallsIdle /\ NodeInfoIdle /\ PredicatesIdle /\ ProviderIdle /\ PagesIdle

\* The call isGpuRequestingPod(pod).
CallIsGpuRequestingPod ==
    /\ requesting = NoResult
    /\ requesting' = Returned(isGpuRequestingPod(pod))
    /\ UNCHANGED <<pod, requests, nodeVars, monitorVars, pluginVars, extractVars, parseVars, callVars,
                   nodeInfoVars, predicateVars, providerVars, pageVars>>

\* The call getPodGpuRequests(pod).
CallGetPodGpuRequests ==
    /\ requests = NoResult
    /\ requests' = Returned(getPodGpuRequests(pod))
    /\ UNCHANGED <<pod, requesting, nodeVars, monitorVars, pluginVars, extractVars, parseVars, callVars,
                   nodeInfoVars, predicateVars, providerVars, pageVars>>

NextPod == CallIsGpuRequestingPod \/ CallGetPodGpuRequests

SpecPod == InitPod /\ [][NextPod]_vars

\* Properties of isGpuRequestingPod and getPodGpuRequests.
PodHasSpec == "spec" \in DOMAIN pod.fields /\ IsPlainObject(pod.fields["spec"])

\* Whether spec[key] is missing or a list of container objects.
ListsContainers(key) ==
    PodHasSpec /\ key \in DOMAIN pod.fields["spec"].fields =>
        /\ IsArray(pod.fields["spec"].fields[key])
        /\ \A i \in 1..Len(pod.fields["spec"].fields[key].items) :
              IsPlainObject(pod.fields["spec"].fields[key].items[i])

\* The pod has the shape of the IntelGpuPod type.
PodWellFormed ==
    /\ "spec" \in DOMAIN pod.fields => IsPlainObject(pod.fields["spec"])
    /\ ListsContainers("containers")
    /\ ListsContainers("initContainers")

Listed(key) ==
    IF PodHasSpec /\ key \in DOMAIN pod.fields["spec"].fields /\ IsArray(pod.fields["spec"].fields[key])
    THEN pod.fields["spec"].fields[key].items
    ELSE <<>>

AllListed == Listed("containers") \o Listed("initContainers")

\* The requests or the limits of a container, empty when it has none.
PartOf(c, part) ==
    IF IsPlainObject(c) /\ "resources" \in DOMAIN c.fields /\ part \in DOMAIN c.fields["resources"]
    THEN c.fields["resources"][part]
    ELSE <<>>

HasGpuKeyIn(cs, part) ==
    \E i \in 1..Len(cs) : \E k \in DOMAIN PartOf(cs[i], part) : IsGpuKey(k)

\* C14: isGpuRequestingPod(pod) is true if and only if a container of
\* spec.containers or spec.initContainers has a key starting with gpu.intel.com/
\* in its resources.requests or in its resources.limits.
C14_RequestingIffGpuRequestOrLimit ==
    requesting # NoResult /\ PodWellFormed =>
        /\ ~requesting[1].threw
        /\ requesting[1].value <=>
              (HasGpuKeyIn(AllListed, "requests") \/ HasGpuKeyIn(AllListed, "limits"))

\* A pod classified true whose only GPU key is a limit of an init container, next
\* to two regular containers without GPU keys.
C14_Witness ==
    /\ requesting # NoResult /\ ~requesting[1].threw /\ requesting[1].value
    /\ PodWellFormed
    /\ Len(Listed("containers")) = 2
    /\ ~HasGpuKeyIn(Listed("containers"), "requests")
    /\ ~HasGpuKeyIn(Listed("containers"), "limits")
    /\ ~HasGpuKeyIn(Listed("initContainers"), "requests")
    /\ HasGpuKeyIn(Listed("initContainers"), "limits")

\* The integer a requested quantity stands for; 0 for a non-numeric one.
RequestValue(q) == CASE q = <<"1">> -> 1 [] q = <<"2">> -> 2 [] OTHER -> 0

RECURSIVE RequestedTotal(_, _)
RequestedTotal(cs, k) ==
    IF cs = <<>> THEN 0
    ELSE (IF k \in DOMAIN PartOf(cs[1], "requests")
          THEN RequestValue(PartOf(cs[1], "requests")[k]) ELSE 0)
         + RequestedTotal(Tail(cs), k)

GpuRequestKeys ==
    {k \in UNION {DOMAIN PartOf(AllListed[i], "requests") : i \in 1..Len(AllListed)} : IsGpuKey(k)}

IsDecimalOf(str, k) ==
    /\ str # <<>>
    /\ \A i \in 1..Len(str) : str[i] \in {"0", "1", "2", "3", "4", "5", "6", "7", "8", "9"}
    /\ Len(str) > 1 => str[1] # "0"
    /\ DigitsToNat(str) = k

\* C15: getPodGpuRequests(pod) maps each gpu.intel.com/ request key to the decimal
\* string of the sum of its integer-parsed request values over all regular and init
\* containers, non-numeric values counting 0; limits and other keys never appear.
C15_RequestsSummedPerKey ==
    requests # NoResult /\ PodWellFormed =>
        /\ ~requests[1].threw
        /\ DOMAIN requests[1].value = GpuRequestKeys
        /\ \A k \in GpuRequestKeys :
              IsDecimalOf(requests[1].value[k], RequestedTotal(AllListed, k))

\* C16: isGpuRequestingPod and getPodGpuRequests return a value, and do not throw,
\* for every pod object, however malformed its spec, containers or resources are.
C16_PodHelpersNeverThrow ==
    /\ requesting # NoResult => ~requesting[1].threw
    /\ requests # NoResult => ~requests[1].threw

----------------------------------------------------------------------------
(***************************************************************************)
(* The five classification predicates of k8s.ts applied to one value:      *)
(* isIntelGpuNode, isGpuRequestingPod, isIntelGpuPluginPod,                *)
(* isGpuDevicePlugin and isKubeList.                                       *)
(***************************************************************************)
PLUGIN_APP == "intel-gpu-plugin"

\* Variant without the guard of line 84: obj['kind'] is read from any value, and
\* reading a property of null or undefined throws.
isGpuDevicePluginUnguarded(v) ==
    IF IsNullish(v) THEN Threw
    ELSE IF ~IsPlainObject(v) THEN Ok(FALSE)
    ELSE Ok(Field(v.fields, "kind") = <<"GpuDevicePlugin">>)

isGpuDevicePlugin(v) ==
    IF v.falsy \/ v.type # "object" THEN Ok(FALSE)
    ELSE IF ~IsPlainObject(v) THEN Ok(FALSE)
    ELSE Ok(Field(v.fields, "kind") = <<"GpuDevicePlugin">>)

isIntelGpuPluginPod(v) ==
    IF v.falsy \/ v.type # "object" THEN Ok(FALSE)
    ELSE LET meta == IF IsPlainObject(v) THEN Field(v.fields, "metadata") ELSE <<>>
             labels == Chain(meta, "labels")
         IN IF labels = <<>> THEN Ok(FALSE)
            ELSE Ok(\/ Field(labels[1], "app") = <<PLUGIN_APP>>
                    \/ Field(labels[1], "app.kubernetes.io/name") = <<PLUGIN_APP>>
                    \/ Field(labels[1], "component") = <<PLUGIN_APP>>)

isKubeList(v) ==
    IF v.falsy \/ v.type # "object" THEN Ok(FALSE)
    ELSE IF ~IsPlainObject(v) THEN Ok(FALSE)
    ELSE Ok(Field(v.fields, "items") # <<>> /\ IsArray(v.fields["items"]))

\* The objects the predicates are tried on, besides the primitives: one that each
\* predicate accepts, an empty object, and an object whose items is not an array.
ClassifiedObjects ==
    { JsObject(<<>>),
      JsObject([metadata |-> [labels |-> [k \in {INTEL_GPU_NODE_LABEL} |-> "true"]]]),
      JsObject([spec |-> JsObject([containers |-> JsArray(<<JsObject([resources |->
            [requests |-> [k \in {INTEL_GPU_RESOURCE} |-> <<"1">>]]])>>)])]),
      JsObject([metadata |-> [labels |-> [app |-> PLUGIN_APP]]]),
      JsObject([metadata |-> [labels |-> [component |-> PLUGIN_APP]]]),
      JsObject([kind |-> "GpuDevicePlugin"]),
      JsObject([kind |-> "Pod"]),
      JsObject([items |-> JsArray(<<>>)]),
      JsObject([items |-> JsNumber]) }

Predicates ==
    {"isIntelGpuNode", "isGpuRequestingPod", "isIntelGpuPluginPod", "isGpuDevicePlugin", "isKubeList"}

InitPredicates ==
    /\ input \in Primitives \cup ClassifiedObjects
    /\ verdicts = <<>>
    /\ NodeIdle /\ MonitorIdle /\ PluginIdle /\ ExtractIdle /\ ParseIdle
    /\ CallsIdle /\ NodeInfoIdle /\ PodIdle /\ ProviderIdle /\ PagesIdle

\* Records the outcome of one predicate.
Classified(name, outcome) ==
    /\ name \notin DOMAIN verdicts
    /\ verdicts' = [p \in DOMAIN verdicts \cup {name} |->
                        IF p = name THEN outcome ELSE verdicts[p]]
    /\ UNCHANGED <<input, nodeVars, monitorVars, pluginVars, extractVars, parseVars, callVars,
                   nodeInfoVars, podVars, providerVars, pageVars>>

ClassifyIsIntelGpuNode == Classified("isIntelGpuNode", Ok(isIntelGpuNode(input)))
ClassifyIsGpuRequestingPod == Classified("isGpuRequestingPod", isGpuRequestingPod(input))
ClassifyIsIntelGpuPluginPod == Classified("isIntelGpuPluginPod", isIntelGpuPluginPod(input))
ClassifyIsGpuDevicePlugin == Classified("isGpuDevicePlugin", isGpuDevicePlugin(input))
ClassifyIsKubeList == Classified("isKubeList", isKubeList(input))

NextPredicates ==
    \/ ClassifyIsIntelGpuNode
    \/ ClassifyIsGpuRequestingPod
    \/ ClassifyIsIntelGpuPluginPod
    \/ ClassifyIsGpuDevicePlugin
    \/ ClassifyIsKubeList

SpecPredicates == InitPredicates /\ [][NextPredicates]_vars

\* Properties of the classification predicates.
InputIsNotAnObject == input.type # "object" \/ (input.falsy /\ input.type = "object")

\* C17: isIntelGpuNode, isGpuRequestingPod, isIntelGpuPluginPod, isGpuDevicePlugin
\* and isKubeList return false, and do not throw, for null, undefined and every
\* string, number and boolean.
C17_PredicatesFalseOnNonObjects ==
    InputIsNotAnObject =>
        \A p \in DOMAIN verdicts : ~verdicts[p].threw /\ verdicts[p].value = FALSE

\* null classified by all five predicates.
C17_Witness ==
    /\ input = [type |-> "object", falsy |-> TRUE]
    /\ DOMAIN verdicts = Predicates

----------------------------------------------------------------------------
(***************************************************************************)
(* IntelGpuDataProvider (IntelGpuDataContext.tsx): the effect of lines     *)
(* 89-159.  Every run of the effect creates a closure with its own         *)
(* cancelled flag and starts fetchAsync, which suspends at each            *)
(* await ApiProxy.request(...); the cleanup of the effect, run before the  *)
(* next run, sets cancelled.  A run is                                     *)
(*   [cancelled, pc, url, found, lists]                                    *)
(* with pc "crd" while the GpuDevicePlugin request is awaited, "pods"      *)
(* while the request for pluginPodSelectors[url] is awaited, and "done";   *)
(* found is foundPluginPods and lists records the items of every list      *)
(* that was pushed.                                                       *)
(***************************************************************************)
MaxRefresh == 1

pluginPodSelectors ==
    << "/api/v1/pods?labelSelector=app=intel-gpu-plugin",
       "/api/v1/pods?labelSelector=app.kubernetes.io/name=intel-gpu-plugin",
       "/api/v1/namespaces/inteldeviceplugins-system/pods" >>

\* The pods the API server may list: two snapshots of the pod with UID abc, under
\* different labels, a second plugin pod, a plugin pod without uid, and a pod that
\* is not a plugin pod.
PodAbc1 == JsObject([metadata |-> [uid |-> "abc", resourceVersion |-> "1", labels |-> [app |-> PLUGIN_APP]]])
PodAbc2 ==
    JsObject([metadata |-> [uid |-> "abc", resourceVersion |-> "2",
                            labels |-> [k \in {"app.kubernetes.io/name"} |-> PLUGIN_APP]]])
PodDef == JsObject([metadata |-> [uid |-> "def", resourceVersion |-> "1", labels |-> [component |-> PLUGIN_APP]]])
PodNoUid == JsObject([metadata |-> [resourceVersion |-> "1", labels |-> [app |-> PLUGIN_APP]]])
PodOther == JsObject([metadata |-> [uid |-> "ghi", resourceVersion |-> "1", labels |-> [app |-> "web"]]])

PodLists ==
    { <<PodAbc2, PodOther, PodAbc1>>,
      <<PodNoUid, PodDef, PodAbc1>> }

\* Outcomes of await ApiProxy.request(url) for a pod query: rejected, resolved with
\* something that is not a list, resolved with a list.
PodResponses ==
    {Threw, Ok(JsObject(<<>>))} \cup {Ok(JsObject([items |-> JsArray(l)])) : l \in PodLists}

DevicePlugin == JsObject([kind |-> "GpuDevicePlugin"])

\* Outcomes of the GpuDevicePlugin request.
CrdResponses ==
    {Threw, Ok(JsObject(<<>>)), Ok(JsObject([items |-> JsArray(<<DevicePlugin, JsObject([kind |-> "Pod"])>>)]))}

filterIntelGpuPluginPods(items) == SelectSeq(items, LAMBDA p : isIntelGpuPluginPod(p).value)

\* p.metadata.uid followed by !uid: <<>> for a missing or empty uid.
UidOf(p) ==
    LET uid == Field(p.fields["metadata"], "uid")
    IN IF uid = <<"">> THEN <<>> ELSE uid

\* Variant of the filter in which a later pod replaces the earlier one of its UID.
RECURSIVE UniqueByUidKeepingLast(_, _)
UniqueByUidKeepingLast(found, seen) ==
    IF found = <<>> THEN <<>>
    ELSE LET p == found[1]
             rest == Tail(found)
         IN IF UidOf(p) = <<>> \/ \E i \in 1..Len(rest) : UidOf(rest[i]) = UidOf(p)
            THEN UniqueByUidKeepingLast(rest, seen)
            ELSE <<p>> \o UniqueByUidKeepingLast(rest, seen)

\* foundPluginPods.filter(...) of lines 139-145, seen being the Set.
RECURSIVE UniqueByUid(_, _)
UniqueByUid(found, seen) ==
    IF found = <<>> THEN <<>>
    ELSE LET p == found[1]
         IN IF UidOf(p) = <<>> \/ UidOf(p)[1] \in seen
            THEN UniqueByUid(Tail(found), seen)
            ELSE <<p>> \o UniqueByUid(Tail(found), seen \cup {UidOf(p)[1]})

NewRun == [cancelled |-> FALSE, pc |-> "crd", url |-> 1, found |-> <<>>, lists |-> <<>>]

\* The cleanup `cancelled = true` (line 158) applied to the closure of a run.
Cancel(run) == [run EXCEPT !.cancelled = TRUE]

InitProvider ==
    /\ refreshKey = 0
    /\ runs = <<>>
    /\ devicePlugins = <<>>
    /\ crdAvailable = FALSE
    /\ pluginPods = <<>>
    /\ asyncLoading = TRUE
    /\ asyncError = <<>>
    /\ shown = <<>>
    /\ recording = FALSE
    /\ settled = <<>>
    /\ NodeIdle /\ MonitorIdle /\ PluginIdle /\ ExtractIdle /\ ParseIdle
    /\ CallsIdle /\ NodeInfoIdle /\ PodIdle /\ PredicatesIdle /\ PagesIdle

\* The first run of the effect: fetchAsync up to its first await.
Mount ==
    /\ runs = <<>>
    /\ runs' = <<NewRun>>
    /\ asyncLoading' = TRUE
    /\ asyncError' = <<>>
    /\ settled' = <<>>
    /\ UNCHANGED <<recording, refreshKey, devicePlugins, crdAvailable, pluginPods, shown, nodeVars, monitorVars,
                   pluginVars, extractVars, parseVars, callVars, nodeInfoVars, podVars,
                   predicateVars, pageVars>>

\* The provider is mounted from the first run of the effect until the cleanup of
\* the latest run at unmount.
Mounted == runs # <<>> /\ ~runs[Len(runs)].cancelled

\* refresh(): refreshKey changes, the cleanup of the previous run is called and
\* the effect runs again.
Refresh ==
    /\ Mounted
    /\ refreshKey < MaxRefresh
    /\ refreshKey' = refreshKey + 1
    /\ runs' = Append([runs EXCEPT ![Len(runs)] = Cancel(runs[Len(runs)])], NewRun)
    /\ asyncLoading' = TRUE
    /\ asyncError' = <<>>
    /\ settled' = <<>>
    /\ UNCHANGED <<recording, devicePlugins, crdAvailable, pluginPods, shown, nodeVars, monitorVars, pluginVars,
                   extractVars, parseVars, callVars, nodeInfoVars, podVars, predicateVars,
                   pageVars>>

\* The provider unmounts: React calls the cleanup of the latest run; requests in
\* flight still settle afterwards.
Unmount ==
    /\ Mounted
    /\ runs' = [runs EXCEPT ![Len(runs)] = Cancel(runs[Len(runs)])]
    /\ UNCHANGED <<refreshKey, devicePlugins, crdAvailable, pluginPods, asyncLoading, asyncError,
                   shown, recording, settled, nodeVars, monitorVars, pluginVars, extractVars, parseVars,
                   callVars, nodeInfoVars, podVars, predicateVars, pageVars>>

\* The outcome resp of a request of run r joins the history when r is live.
Settled(r, resp) == IF recording /\ ~runs[r].cancelled THEN Append(settled, resp) ELSE settled

\* Variant without the inner try/catch of lines 98-111: a rejected request reaches
\* the catch of line 148 and the function ends there.
CrdResponseUnabsorbed(r, resp) ==
    /\ runs[r].pc = "crd"
    /\ runs' = [runs EXCEPT ![r].pc = IF resp.threw THEN "done" ELSE "pods"]
    /\ settled' = Settled(r, resp)
    /\ IF runs[r].cancelled THEN UNCHANGED <<crdAvailable, devicePlugins, asyncError, asyncLoading>>
       ELSE IF resp.threw
            THEN /\ asyncError' = <<"request failed">>
                 /\ asyncLoading' = FALSE
                 /\ UNCHANGED <<crdAvailable, devicePlugins>>
       ELSE IF isKubeList(resp.value).value
            THEN /\ crdAvailable' = TRUE
                 /\ devicePlugins' =
                        SelectSeq(resp.value.fields["items"].items,
                                  LAMBDA v : isGpuDevicePlugin(v).value)
                 /\ UNCHANGED <<asyncError, asyncLoading>>
       ELSE UNCHANGED <<crdAvailable, devicePlugins, asyncError, asyncLoading>>
    /\ UNCHANGED <<recording, refreshKey, pluginPods, shown, nodeVars, monitorVars,
                   pluginVars, extractVars, parseVars, callVars, nodeInfoVars, podVars,
                   predicateVars, pageVars>>

\* The GpuDevicePlugin request of run r settles (lines 98-111).
CrdResponse(r, resp) ==
    /\ runs[r].pc = "crd"
    /\ runs' = [runs EXCEPT ![r].pc = "pods"]
    /\ settled' = Settled(r, resp)
    /\ IF runs[r].cancelled THEN UNCHANGED <<crdAvailable, devicePlugins>>
       ELSE IF resp.threw THEN crdAvailable' = FALSE /\ devicePlugins' = <<>>
       ELSE IF isKubeList(resp.value).value
            THEN /\ crdAvailable' = TRUE
                 /\ devicePlugins' =
                        SelectSeq(resp.value.fields["items"].items,
                                  LAMBDA v : isGpuDevicePlugin(v).value)
       ELSE UNCHANGED <<crdAvailable, devicePlugins>>
    /\ UNCHANGED <<recording, refreshKey, pluginPods, asyncLoading, asyncError, shown, nodeVars, monitorVars,
                   pluginVars, extractVars, parseVars, callVars, nodeInfoVars, podVars,
                   predicateVars, pageVars>>

\* Variant without the tests of cancelled at lines 147 and 153: the end of the
\* function writes whatever happened to the effect run.
PodsResponseUnguarded(r, resp) ==
    /\ runs[r].pc = "pods"
    /\ LET run == runs[r]
           pushed == ~run.cancelled /\ ~resp.threw /\ isKubeList(resp.value).value
           found == IF pushed
                    THEN run.found \o filterIntelGpuPluginPods(resp.value.fields["items"].items)
                    ELSE run.found
           lists == IF pushed THEN Append(run.lists, resp.value.fields["items"].items)
                    ELSE run.lists
       IN IF run.url < Len(pluginPodSelectors)
          THEN /\ runs' = [runs EXCEPT ![r].url = run.url + 1, ![r].found = found,
                                       ![r].lists = lists]
               /\ UNCHANGED <<pluginPods, asyncLoading, shown>>
               /\ settled' = Settled(r, resp)
          ELSE /\ runs' = [runs EXCEPT ![r].pc = "done", ![r].found = found, ![r].lists = lists]
               /\ settled' = Settled(r, resp)
               /\ pluginPods' = UniqueByUid(found, {})
               /\ asyncLoading' = FALSE
               /\ shown' = lists
    /\ UNCHANGED <<recording, refreshKey, devicePlugins, crdAvailable, asyncError, nodeVars, monitorVars, pluginVars,
                   extractVars, parseVars, callVars, nodeInfoVars, podVars, predicateVars,
                   pageVars>>

\* Variant without the finally of lines 152-154.
PodsResponseKeepsLoading(r, resp) ==
    /\ runs[r].pc = "pods"
    /\ LET run == runs[r]
           pushed == ~run.cancelled /\ ~resp.threw /\ isKubeList(resp.value).value
           found == IF pushed
                    THEN run.found \o filterIntelGpuPluginPods(resp.value.fields["items"].items)
                    ELSE run.found
           lists == IF pushed THEN Append(run.lists, resp.value.fields["items"].items)
                    ELSE run.lists
       IN IF run.url < Len(pluginPodSelectors)
          THEN /\ runs' = [runs EXCEPT ![r].url = run.url + 1, ![r].found = found,
                                       ![r].lists = lists]
               /\ UNCHANGED <<pluginPods, asyncLoading, shown>>
               /\ settled' = Settled(r, resp)
          ELSE /\ runs' = [runs EXCEPT ![r].pc = "done", ![r].found = found, ![r].lists = lists]
               /\ settled' = Settled(r, resp)
               /\ IF run.cancelled THEN UNCHANGED <<pluginPods, asyncLoading, shown>>
                  ELSE /\ pluginPods' = UniqueByUid(found, {})
                       /\ shown' = lists
                       /\ UNCHANGED asyncLoading
    /\ UNCHANGED <<recording, refreshKey, devicePlugins, crdAvailable, asyncError, nodeVars, monitorVars, pluginVars,
                   extractVars, parseVars, callVars, nodeInfoVars, podVars, predicateVars,
                   pageVars>>

\* The request for pluginPodSelectors[url] of run r settles (lines 126-136); after
\* the last one the function runs on to its end (lines 138-154).
PodsResponse(r, resp) ==
    /\ runs[r].pc = "pods"
    /\ LET run == runs[r]
           pushed == ~run.cancelled /\ ~resp.threw /\ isKubeList(resp.value).value
           found == IF pushed
                    THEN run.found \o filterIntelGpuPluginPods(resp.value.fields["items"].items)
                    ELSE run.found
           lists == IF pushed THEN Append(run.lists, resp.value.fields["items"].items)
                    ELSE run.lists
       IN IF run.url < Len(pluginPodSelectors)
          THEN /\ runs' = [runs EXCEPT ![r].url = run.url + 1, ![r].found = found,
                                       ![r].lists = lists]
               /\ UNCHANGED <<pluginPods, asyncLoading, shown>>
               /\ settled' = Settled(r, resp)
          ELSE /\ runs' = [runs EXCEPT ![r].pc = "done", ![r].found = found, ![r].lists = lists]
               /\ settled' = Settled(r, resp)
               /\ IF run.cancelled THEN UNCHANGED <<pluginPods, asyncLoading, shown>>
                  ELSE /\ pluginPods' = UniqueByUid(found, {})
                       /\ asyncLoading' = FALSE
                       /\ shown' = lists
    /\ UNCHANGED <<recording, refreshKey, devicePlugins, crdAvailable, asyncError, nodeVars, monitorVars, pluginVars,
                   extractVars, parseVars, callVars, nodeInfoVars, podVars, predicateVars,
                   pageVars>>

NextProvider ==
    \/ Mount
    \/ Refresh
    \/ Unmount
    \/ \E r \in DOMAIN runs : \E resp \in CrdResponses : CrdResponse(r, resp)
    \/ \E r \in DOMAIN runs : \E resp \in PodResponses : PodsResponse(r, resp)

SpecProvider == InitProvider /\ [][NextProvider]_vars

\* The same provider, observed with the history of settled requests.  The pod
\* queries answer with a rejection, a value that is no list, or one list.
InitRecorded ==
    /\ refreshKey = 0
    /\ runs = <<>>
    /\ devicePlugins = <<>>
    /\ crdAvailable = FALSE
    /\ pluginPods = <<>>
    /\ asyncLoading = TRUE
    /\ asyncError = <<>>
    /\ shown = <<>>
    /\ recording = TRUE
    /\ settled = <<>>
    /\ NodeIdle /\ MonitorIdle /\ PluginIdle /\ ExtractIdle /\ ParseIdle
    /\ CallsIdle /\ NodeInfoIdle /\ PodIdle /\ PredicatesIdle /\ PagesIdle

RecordedPodResponses ==
    {Threw, Ok(JsObject(<<>>)), Ok(JsObject([items |-> JsArray(<<PodNoUid, PodDef, PodAbc1>>)]))}

NextRecorded ==
    \/ Mount
    \/ Refresh
    \/ Unmount
    \/ \E r \in DOMAIN runs : \E resp \in CrdResponses : CrdResponse(r, resp)
    \/ \E r \in DOMAIN runs : \E resp \in RecordedPodResponses : PodsResponse(r, resp)

SpecRecorded == InitRecorded /\ [][NextRecorded]_vars

\* Properties of the plugin pod list.
RECURSIVE Flatten(_)
Flatten(ls) == IF ls = <<>> THEN <<>> ELSE ls[1] \o Flatten(Tail(ls))

HasPluginLabel(p) ==
    /\ "labels" \in DOMAIN p.fields["metadata"]
    /\ \E l \in {"app", "app.kubernetes.io/name", "component"} :
          /\ l \in DOMAIN p.fields["metadata"]["labels"]
          /\ p.fields["metadata"]["labels"][l] = "intel-gpu-plugin"

CarriesUid(p, u) == "uid" \in DOMAIN p.fields["metadata"] /\ p.fields["metadata"]["uid"] = u

\* The plugin pods returned by the queries of the fetch behind pluginPods, in
\* query order.
ReturnedPluginPods == SelectSeq(Flatten(shown), HasPluginLabel)

KnownUids == {"abc", "def", "ghi"}

FirstWith(u) ==
    CHOOSE i \in 1..Len(ReturnedPluginPods) :
        /\ CarriesUid(ReturnedPluginPods[i], u)
        /\ \A h \in 1..(i - 1) : ~CarriesUid(ReturnedPluginPods[h], u)

\* C18: pluginPods never holds two entries with the same UID; for every UID of a
\* plugin pod returned by the queries of the last completed, un-cancelled fetch
\* it holds exactly one entry, the first occurrence in query order, and the kept
\* entries stand in first-occurrence order.
C18_PluginPodsUniqueFirstWins ==
    /\ \A i, j \in 1..Len(pluginPods) :
          i # j => \A u \in KnownUids : ~(CarriesUid(pluginPods[i], u) /\ CarriesUid(pluginPods[j], u))
    /\ \A u \in KnownUids :
          (\E i \in 1..Len(ReturnedPluginPods) : CarriesUid(ReturnedPluginPods[i], u)) =>
              /\ Cardinality({i \in 1..Len(pluginPods) : CarriesUid(pluginPods[i], u)}) = 1
              /\ \E i \in 1..Len(pluginPods) : pluginPods[i] = ReturnedPluginPods[FirstWith(u)]
    /\ \A i, j \in 1..Len(pluginPods) :
          i < j => \E u, w \in KnownUids :
                      /\ CarriesUid(pluginPods[i], u) /\ CarriesUid(pluginPods[j], w)
                      /\ FirstWith(u) < FirstWith(w)

\* After a refresh, a fetch whose three queries all returned pods with UID abc:
\* the second snapshot came first and is the one kept, ahead of def.
C18_Witness ==
    /\ refreshKey = 1
    /\ Len(shown) = 3
    /\ shown[1] = <<PodAbc2, PodOther, PodAbc1>>
    /\ shown[2] = <<PodNoUid, PodDef, PodAbc1>>
    /\ shown[3] = <<PodAbc2, PodOther, PodAbc1>>
    /\ pluginPods = <<PodAbc2, PodDef>>

----------------------------------------------------------------------------
(***************************************************************************)
(* The aggregation of OverviewPage (OverviewPage.tsx lines 88-118) and of  *)
(* NodesPage (PodsPage.tsx lines 419-433) over the gpuNodes and gpuPods    *)
(* of the context, which are the nodes accepted by isIntelGpuNode and the  *)
(* pods accepted by isGpuRequestingPod.                                    *)
(***************************************************************************)
MaxNodes == 2
MaxPods == 2

Labelled == [labels |-> [k \in {INTEL_GPU_NODE_LABEL} |-> "true"]]

\* Nodes of the cluster: capacity and allocatable hold '40', the non-numeric 'x' or
\* the empty string under i915, xe and millicores; one node is a GPU node by its
\* label only, one is not a GPU node.
ClusterNodes ==
    { JsObject([metadata |-> Labelled,
                status |-> [capacity |-> [k \in {INTEL_GPU_RESOURCE} |-> <<"4", "0">>],
                            allocatable |-> [k \in {INTEL_GPU_RESOURCE} |-> <<"4", "0">>]]]),
      JsObject([metadata |-> <<>>,
                status |-> [capacity |-> [k \in {INTEL_GPU_RESOURCE, INTEL_GPU_XE_RESOURCE} |-> <<"4", "0">>],
                            allocatable |-> [k \in {INTEL_GPU_RESOURCE} |-> <<"4", "0">>]]]),
      JsObject([metadata |-> <<>>,
                status |-> [capacity |-> [k \in {INTEL_GPU_RESOURCE} |-> <<"x">>],
                            allocatable |-> [k \in {INTEL_GPU_RESOURCE} |-> <<"4", "0">>]]]),
      JsObject([metadata |-> <<>>,
                status |-> [capacity |-> [k \in {INTEL_GPU_RESOURCE, INTEL_GPU_MILLICORES_RESOURCE} |-> <<"4", "0">>],
                            allocatable |-> [k \in {INTEL_GPU_RESOURCE} |-> <<"x">>]]]),
      JsObject([metadata |-> <<>>,
                status |-> [capacity |-> [k \in {INTEL_GPU_XE_RESOURCE} |-> <<>>]]]),
      JsObject([metadata |-> Labelled]),
      JsObject([metadata |-> <<>>, status |-> [capacity |-> [k \in {<<"c", "p", "u">>} |-> <<"4", "0">>]]]) }

RequestingContainer(key) == JsObject([resources |-> [requests |-> [k \in {key} |-> <<"2", "3">>]]])

\* Pods of the cluster: each requests 23 of a resource, or has a limit only; one
\* pod requests no GPU.
ClusterPods ==
    { JsObject([spec |-> JsObject([containers |-> JsArray(<<RequestingContainer(INTEL_GPU_RESOURCE)>>)]),
                status |-> [phase |-> "Running"]]),
      JsObject([spec |-> JsObject([containers |-> JsArray(<<RequestingContainer(INTEL_GPU_RESOURCE)>>)]),
                status |-> [phase |-> "Pending"]]),
      JsObject([spec |-> JsObject([containers |-> JsArray(<<RequestingContainer(INTEL_GPU_XE_RESOURCE),
                                                            RequestingContainer(INTEL_GPU_MILLICORES_RESOURCE)>>)]),
                status |-> [phase |-> "Running"]]),
      JsObject([spec |-> JsObject([containers |-> JsArray(<<JsObject([resources |->
                    [limits |-> [k \in {INTEL_GPU_RESOURCE} |-> <<"2", "3">>]]])>>)])]),
      JsObject([spec |-> JsObject([containers |-> JsArray(<<RequestingContainer(<<"c", "p", "u">>)>>)]),
                status |-> [phase |-> "Running"]]) }

\* filterIntelGpuNodes and filterGpuRequestingPods, applied by the context.
filterIntelGpuNodes(items) == SelectSeq(items, isIntelGpuNode)
filterGpuRequestingPods(items) ==
    SelectSeq(items, LAMBDA p : LET r == isGpuRequestingPod(p) IN ~r.threw /\ r.value)

\* parseInt(resources[key] ?? '0', 10)
ParsedOrZero(resources, key) ==
    IF key \in DOMAIN resources THEN parseInt(resources[key]) ELSE parseInt(<<"0">>)

\* node.status?.[part] ?? {}
StatusPart(n, part) ==
    LET found == Chain(Field(n.fields, "status"), part)
    IN IF found = <<>> THEN <<>> ELSE found[1]

\* The loop over Object.keys(capacity) of one node: what it adds to the capacity
\* total (of = "capacity") and to the allocatable total (of = "allocatable").
NodeTotal(n, of) ==
    LET capacity == StatusPart(n, "capacity")
        term == [key \in DOMAIN capacity |->
                    IF key = INTEL_GPU_RESOURCE \/ key = INTEL_GPU_XE_RESOURCE
                    THEN ParsedOrZero(StatusPart(n, of), key)
                    ELSE Num(0)]
    IN SumEntries(DOMAIN capacity, term)

RECURSIVE SumNodes(_, _)
SumNodes(ns, of) ==
    IF ns = <<>> THEN Num(0)
    ELSE JsAdd(SumNodes(SubSeq(ns, 1, Len(ns) - 1), of), NodeTotal(ns[Len(ns)], of))

\* What a pod adds to totalAllocatedGpus (lines 106-112).
PodAllocated(p) ==
    IF Chain(Field(p.fields, "status"), "phase") # <<"Running">> THEN Num(0)
    ELSE LET reqs == getPodGpuRequests(p).value
             term == [key \in DOMAIN reqs |->
                         IF key = INTEL_GPU_RESOURCE \/ key = INTEL_GPU_XE_RESOURCE
                         THEN OrZero(parseInt(reqs[key]))
                         ELSE Num(0)]
         IN SumEntries(DOMAIN reqs, term)

RECURSIVE SumPods(_)
SumPods(ps) ==
    IF ps = <<>> THEN Num(0)
    ELSE JsAdd(SumPods(SubSeq(ps, 1, Len(ps) - 1)), PodAllocated(ps[Len(ps)]))

\* Math.round((totalAllocatedGpus / totalCapacityGpus) * 100) in double arithmetic,
\* for the totals that the nodes and pods above can add up to.
RoundedAllocation ==
    [p \in {23 * k : k \in 0..(2 * MaxPods)} \X {40 * j : j \in 1..(2 * MaxNodes)} |->
        CHOOSE r \in {MathRound(y) : y \in {DoubleMul100(x) : x \in {DoubleDiv(p[1], p[2])}}} : TRUE]
    @@ <<>>

\* totalCapacityGpus > 0 ? Math.round((totalAllocatedGpus / totalCapacityGpus) * 100) : 0
gpuUtilizationPct(allocated, capacity) ==
    IF ~capacity.nan /\ capacity.n > 0
    THEN RoundedAllocation[<<allocated.n, capacity.n>>]
    ELSE 0

OverviewTotals(ns, ps) ==
    LET capacity == SumNodes(ns, "capacity")
        allocated == SumPods(ps)
    IN [totalCapacityGpus |-> capacity,
        totalAllocatableGpus |-> SumNodes(ns, "allocatable"),
        totalAllocatedGpus |-> allocated,
        gpuUtilizationPct |-> gpuUtilizationPct(allocated, capacity)]

\* One row of tableData of NodesPage.
NodeRow(n) ==
    [gpuType |-> getNodeGpuType(n),
     gpuCount |-> getNodeGpuCount(n),
     totalCapacity |-> NodeTotal(n, "capacity"),
     totalAllocatable |-> NodeTotal(n, "allocatable")]

InitPages ==
    /\ \E ns \in SeqsUpTo(ClusterNodes, MaxNodes) : pageNodes = filterIntelGpuNodes(ns)
    /\ \E ps \in SeqsUpTo(ClusterPods, MaxPods) : pagePods = filterGpuRequestingPods(ps)
    /\ overview = NoResult /\ tableData = NoResult
    /\ NodeIdle /\ MonitorIdle /\ PluginIdle /\ ExtractIdle /\ ParseIdle
    /\ CallsIdle /\ NodeInfoIdle /\ PodIdle /\ PredicatesIdle /\ ProviderIdle

\* A render of OverviewPage once the context has loaded.
RenderOverviewPage ==
    /\ overview = NoResult
    /\ overview' = Returned(OverviewTotals(pageNodes, pagePods))
    /\ UNCHANGED <<pageNodes, pagePods, tableData, nodeVars, monitorVars, pluginVars, extractVars,
                   parseVars, callVars, nodeInfoVars, podVars, predicateVars, providerVars>>

\* A render of NodesPage once the context has loaded.
RenderNodesPage ==
    /\ tableData = NoResult
    /\ tableData' = Returned([i \in 1..Len(pageNodes) |-> NodeRow(pageNodes[i])])
    /\ UNCHANGED <<pageNodes, pagePods, overview, nodeVars, monitorVars, pluginVars, extractVars,
                   parseVars, callVars, nodeInfoVars, podVars, predicateVars, providerVars>>

NextPages == RenderOverviewPage \/ RenderNodesPage

SpecPages == InitPages /\ [][NextPages]_vars

\* Properties of the page aggregation.
\* The integer a quantity of the cluster stands for; 0 when it does not parse.
ClusterQuantity(q) == CASE q = <<"4", "0">> -> 40 [] q = <<"2", "3">> -> 23 [] OTHER -> 0

MapOf(n, part) ==
    IF "status" \in DOMAIN n.fields /\ part \in DOMAIN n.fields["status"]
    THEN n.fields["status"][part] ELSE <<>>

\* The two device-count resource keys.
I915Key == <<"g", "p", "u", ".", "i", "n", "t", "e", "l", ".", "c", "o", "m", "/", "i", "9", "1", "5">>
XeKey == <<"g", "p", "u", ".", "i", "n", "t", "e", "l", ".", "c", "o", "m", "/", "x", "e">>

QuantityAt(m, key) == IF key \in DOMAIN m THEN ClusterQuantity(m[key]) ELSE 0

\* The i915 and xe quantities of one node under capacity or allocatable.
DeviceTotal(n, part) == QuantityAt(MapOf(n, part), I915Key) + QuantityAt(MapOf(n, part), XeKey)

RECURSIVE ClusterTotal(_, _)
ClusterTotal(ns, part) ==
    IF ns = <<>> THEN 0 ELSE DeviceTotal(ns[1], part) + ClusterTotal(Tail(ns), part)

IsRunning(p) ==
    "status" \in DOMAIN p.fields /\ "phase" \in DOMAIN p.fields["status"]
        /\ p.fields["status"]["phase"] = "Running"

\* The i915 and xe requests of the containers of one pod.
RECURSIVE DeviceRequests(_)
DeviceRequests(cs) ==
    IF cs = <<>> THEN 0
    ELSE QuantityAt(PartOf(cs[1], "requests"), I915Key)
         + QuantityAt(PartOf(cs[1], "requests"), XeKey)
         + DeviceRequests(Tail(cs))

RECURSIVE InUse(_)
InUse(ps) ==
    IF ps = <<>> THEN 0
    ELSE (IF IsRunning(ps[1])
          THEN DeviceRequests(ps[1].fields["spec"].fields["containers"].items) ELSE 0)
         + InUse(Tail(ps))

\* C19: the allocation percentage of the overview is round(100 * inUse / capacity)
\* when the total capacity is greater than 0 and 0 when it is 0, inUse being the
\* i915 and xe requests of the Running GPU pods and capacity the i915 and xe
\* capacity of the GPU nodes.
C19_AllocationPctIsRoundedRatio ==
    overview # NoResult /\ ~overview[1].totalCapacityGpus.nan =>
        /\ overview[1].totalAllocatedGpus = Num(InUse(pagePods))
        /\ overview[1].totalCapacityGpus = Num(ClusterTotal(pageNodes, "capacity"))
        /\ overview[1].gpuUtilizationPct =
              IF ClusterTotal(pageNodes, "capacity") > 0
              THEN (200 * InUse(pagePods) + ClusterTotal(pageNodes, "capacity"))
                       \div (2 * ClusterTotal(pageNodes, "capacity"))
              ELSE 0

\* C20: the capacity and allocatable totals of the overview and of every row of
\* the nodes page are the sums of the i915 and xe quantities only, a quantity that
\* does not parse as an integer counting 0, so that the totals are integers.
C20_TotalsAreIntegerSums ==
    /\ overview # NoResult =>
          /\ overview[1].totalCapacityGpus = Num(ClusterTotal(pageNodes, "capacity"))
          /\ overview[1].totalAllocatableGpus = Num(ClusterTotal(pageNodes, "allocatable"))
    /\ tableData # NoResult =>
          \A i \in 1..Len(pageNodes) :
              /\ tableData[1][i].totalCapacity = Num(DeviceTotal(pageNodes[i], "capacity"))
              /\ tableData[1][i].totalAllocatable = Num(DeviceTotal(pageNodes[i], "allocatable"))

----------------------------------------------------------------------------
(***************************************************************************)
(* extractGpuNodeMetrics (api/metrics.ts, lines 175-206): the per-card     *)
(* gauges.  One of the four gauge families carries the sample list under   *)
(* study; each of the other three is absent or holds one sample.           *)
(***************************************************************************)
\* Longest sample list of the gauge family under study.
MaxGauge == 2

GaugeFamilies == {BOOST_FREQ, MEMORY_LOCAL, MEMORY_SYSTEM, ENERGY}

GaugeLabelSets ==
    { Labels("card0", Undefined, Undefined),
      Labels(Undefined, "card1", Undefined),
      Labels("card0", "card1", Undefined),
      Labels(Undefined, Undefined, "render/0") }

GaugeSampleSet == [labels : GaugeLabelSets, value : {0, 1500}]

OtherSample == [labels |-> Labels(Undefined, "card7", Undefined), value |-> 7]

NodeNames == {"node-a", "node-b"}
PodNames == {"intel-gpu-plugin-a", "intel-gpu-plugin-b"}

\* A ParsedMetrics map of gauge families: a family exists exactly when it has a
\* sample.
GaugeMap(main, samples, others) ==
    [name \in ({main : x \in {samples} \ {<<>>}} \cup (others \ {main})) |->
        [name |-> name, help |-> "", type |-> "gauge",
         samples |-> IF name = main THEN samples ELSE <<OtherSample>>]]

InitGauges ==
    /\ \E main \in GaugeFamilies, samples \in SeqsUpTo(GaugeSampleSet, MaxGauge),
          others \in SUBSET GaugeFamilies :
            exFamilies = GaugeMap(main, samples, others)
    /\ exNodeName \in NodeNames
    /\ exPodName \in PodNames
    /\ exResult = NoResult
    /\ NodeIdle /\ PluginIdle /\ ParseIdle /\ AppIdle

SpecGauges == InitGauges /\ [][NextExtract]_vars

\* The output field that reports each gauge family.
GaugeOut(name) ==
    IF name = BOOST_FREQ THEN exResult[1].boostFreqMhz
    ELSE IF name = MEMORY_LOCAL THEN exResult[1].memoryLocalBytes
    ELSE IF name = MEMORY_SYSTEM THEN exResult[1].memorySystemBytes
    ELSE exResult[1].energyMicrojoules

GaugeIn(name) == IF name \in DOMAIN exFamilies THEN exFamilies[name].samples ELSE <<>>

\* C21: for each of the families gpu_i915_gt_boost_freq_mhz, gpu_i915_memory_local,
\* gpu_i915_memory_system and gpu_i915_energy_microjoules the result holds one
\* entry per sample of that family, in input order, with the sample's card (label
\* card, else gpu, else gpu0) and the sample's value; an absent family yields an
\* empty sequence; nodeName and podName are returned unchanged.
C21_GaugesOnePerSample ==
    ExtractDone =>
        /\ \A name \in GaugeFamilies :
              /\ DOMAIN GaugeOut(name) = 1..Len(GaugeIn(name))
              /\ \A i \in 1..Len(GaugeIn(name)) :
                    /\ GaugeOut(name)[i].card = ResolvedCard(GaugeIn(name)[i])
                    /\ GaugeOut(name)[i].value = GaugeIn(name)[i].value
              /\ name \notin DOMAIN exFamilies => GaugeOut(name) = <<>>
        /\ exResult[1].nodeName = exNodeName
        /\ exResult[1].podName = exPodName

\* Two boost-frequency samples, the first with a gpu label only and the second
\* with both labels, next to an energy family and no memory family.
C21_Witness ==
    /\ ExtractDone
    /\ DOMAIN exFamilies = {BOOST_FREQ, ENERGY}
    /\ exNodeName = "node-b"
    /\ exResult[1].boostFreqMhz =
          <<[card |-> "card1", value |-> 1500], [card |-> "card0", value |-> 0]>>
    /\ exFamilies[BOOST_FREQ].samples[2].labels = Labels("card0", "card1", Undefined)
    /\ exResult[1].energyMicrojoules = <<[card |-> "card7", value |-> 7]>>
    /\ exResult[1].memoryLocalBytes = <<>>

----------------------------------------------------------------------------
(***************************************************************************)
(* fetchGpuPluginMetrics (api/metrics.ts, lines 222-242): one request to   *)
(* the metrics endpoint of a plugin pod through the API proxy, then        *)
(* parsePrometheusText and extractGpuNodeMetrics on the text it returned.  *)
(* A promise settles as [state, value], value being <<>> for null.         *)
(***************************************************************************)
\* Longest response text, in lines.
MaxFetchLines == 2

Namespaces == {"kube-system", "inteldeviceplugins-system"}

\* 'gpu_i915_gt_boost_freq_mhz{card="card0"} 1500'
BoostLine ==
    <<"g", "p", "u", "_", "i", "9", "1", "5", "_", "g", "t", "_", "b", "o", "o", "s", "t",
      "_", "f", "r", "e", "q", "_", "m", "h", "z", "{", "c", "a", "r", "d", "=", "\"", "c",
      "a", "r", "d", "0", "\"", "}", " ", "1", "5", "0", "0">>

\* 'gpu_i915_engine_active_ticks{card="card0",engine="render/0"} 23'
ActiveLine ==
    <<"g", "p", "u", "_", "i", "9", "1", "5", "_", "e", "n", "g", "i", "n", "e", "_", "a",
      "c", "t", "i", "v", "e", "_", "t", "i", "c", "k", "s", "{", "c", "a", "r", "d", "=",
      "\"", "c", "a", "r", "d", "0", "\"", ",", "e", "n", "g", "i", "n", "e", "=", "\"",
      "r", "e", "n", "d", "e", "r", "/", "0", "\"", "}", " ", "2", "3">>

\* 'gpu_i915_engine_total_ticks{card="card0",engine="render/0"} 40'
TotalLine ==
    <<"g", "p", "u", "_", "i", "9", "1", "5", "_", "e", "n", "g", "i", "n", "e", "_", "t",
      "o", "t", "a", "l", "_", "t", "i", "c", "k", "s", "{", "c", "a", "r", "d", "=", "\"",
      "c", "a", "r", "d", "0", "\"", ",", "e", "n", "g", "i", "n", "e", "=", "\"", "r", "e",
      "n", "d", "e", "r", "/", "0", "\"", "}", " ", "4", "0">>

\* 'gpu_i915_memory_local{gpu="card1"} 7'
MemoryLine ==
    <<"g", "p", "u", "_", "i", "9", "1", "5", "_", "m", "e", "m", "o", "r", "y", "_", "l",
      "o", "c", "a", "l", "{", "g", "p", "u", "=", "\"", "c", "a", "r", "d", "1", "\"", "}",
      " ", "7">>

\* '# TYPE gpu_i915_memory_local gauge'
TypeLine ==
    <<"#", " ", "T", "Y", "P", "E", " ", "g", "p", "u", "_", "i", "9", "1", "5", "_", "m",
      "e", "m", "o", "r", "y", "_", "l", "o", "c", "a", "l", " ", "g", "a", "u", "g", "e">>

FetchLines == {BoostLine, ActiveLine, TotalLine, MemoryLine, TypeLine}

\* A string value; lines is text.split('\n'), so the empty string is one empty line.
JsText(lines) == [type |-> "string", falsy |-> lines = << <<>> >>, lines |-> lines]

\* Outcomes of await ApiProxy.request(path, ...): rejected, resolved with a value
\* that is no string, resolved with a text.
FetchResponses ==
    {Threw, Ok(JsNull), Ok(JsUndefined), Ok(JsNumber), Ok(JsObject(<<>>)), Ok(JsText(<< <<>> >>))}
        \cup {Ok(JsText(t)) : t \in UNION {[1..n -> FetchLines] : n \in 1..MaxFetchLines}}

Fulfilled(v) == [state |-> "fulfilled", value |-> v]
Rejected == [state |-> "rejected", value |-> <<>>]

\* A string of the parser model, a sequence of characters, as a TLA+ string.
RECURSIVE Text(_)
Text(chars) == IF chars = <<>> THEN "" ELSE chars[1] \o Text(Tail(chars))

\* The Map returned by the parser in the form the extractor model reads: names
\* and labels as TLA+ strings.
AsStrings(fams) ==
    [n \in {Text(k) : k \in DOMAIN fams} |->
        LET f == fams[CHOOSE k \in DOMAIN fams : Text(k) = n]
            labelsOf(s) ==
                [l \in {Text(k) : k \in DOMAIN s.labels} |->
                    Text(s.labels[CHOOSE k \in DOMAIN s.labels : Text(k) = l])]
        IN [name |-> Text(f.name), help |-> Text(f.help), type |-> Text(f.type),
            samples |-> [i \in 1..Len(f.samples) |->
                            [labels |-> labelsOf(f.samples[i]), value |-> f.samples[i].value]]]]

\* The for loop of parsePrometheusText run to its end.
RECURSIVE ParseLines(_, _)
ParseLines(st, lines) ==
    IF lines = <<>> THEN st ELSE ParseLines(ParseStep(st, lines[1]), Tail(lines))

parsePrometheusText(lines) == ParseLines(ParserState(<<>>, <<>>, <<>>, <<>>), lines).families

\* `/api/v1/namespaces/${namespace}/pods/${podName}:9090/proxy/metrics`
MetricsPath(podName, namespace) ==
    "/api/v1/namespaces/" \o namespace \o "/pods/" \o podName \o ":9090/proxy/metrics"

\* Variant without the catch of lines 239-241: a failed request rejects the promise.
fetchGpuPluginMetricsUncaught(podName, namespace, nodeName, resp) ==
    IF resp.threw THEN Rejected
    ELSE IF resp.value.type # "string" THEN Fulfilled(<<>>)
    ELSE Fulfilled(<<extractGpuNodeMetrics(AsStrings(parsePrometheusText(resp.value.lines)),
                                           nodeName, podName)>>)

\* Lines 229-241, resp being the outcome of the awaited request.
fetchGpuPluginMetrics(podName, namespace, nodeName, resp) ==
    IF resp.threw THEN Fulfilled(<<>>)
    ELSE IF resp.value.type # "string" THEN Fulfilled(<<>>)
    ELSE Fulfilled(<<extractGpuNodeMetrics(AsStrings(parsePrometheusText(resp.value.lines)),
                                           nodeName, podName)>>)

InitFetch ==
    /\ fetchArgs \in [podName : PodNames, namespace : Namespaces, nodeName : NodeNames]
    /\ fetchPath = <<>>
    /\ fetchRaw = <<>>
    /\ fetchOutcome = <<>>
    /\ HwmonIdle /\ MetricsPageIdle
    /\ NodeIdle /\ PluginIdle /\ ExtractIdle /\ ParseIdle
    /\ CallsIdle /\ NodeInfoIdle /\ PodIdle /\ PredicatesIdle /\ ProviderIdle /\ PagesIdle

\* fetchGpuPluginMetrics(podName, namespace, nodeName) up to its await.
CallFetchGpuPluginMetrics ==
    /\ fetchPath = <<>>
    /\ fetchPath' = <<MetricsPath(fetchArgs.podName, fetchArgs.namespace)>>
    /\ UNCHANGED <<fetchArgs, fetchRaw, fetchOutcome, hwmonVars, metricsPageVars, nodeVars, pluginVars, extractVars,
                   parseVars, callVars, nodeInfoVars, podVars, predicateVars, providerVars,
                   pageVars>>

\* The request settles and the function runs to its end.
ProxyResponse(resp) ==
    /\ fetchPath # <<>>
    /\ fetchOutcome = <<>>
    /\ fetchRaw' = <<resp>>
    /\ fetchOutcome' = <<fetchGpuPluginMetrics(fetchArgs.podName, fetchArgs.namespace,
                                               fetchArgs.nodeName, resp)>>
    /\ UNCHANGED <<fetchArgs, fetchPath, hwmonVars, metricsPageVars, nodeVars, pluginVars, extractVars,
                   parseVars, callVars, nodeInfoVars, podVars, predicateVars, providerVars,
                   pageVars>>

NextFetch ==
    \/ CallFetchGpuPluginMetrics
    \/ \E resp \in FetchResponses : ProxyResponse(resp)

SpecFetch == InitFetch /\ [][NextFetch]_vars

FetchSettled == fetchOutcome # <<>>
RequestFailed == fetchRaw[1].threw
ResponseIsString == ~fetchRaw[1].threw /\ fetchRaw[1].value.type = "string"

\* C22: fetchGpuPluginMetrics never rejects; it resolves to null when the proxy
\* request fails or when the response is not a string, and otherwise to the
\* GpuNodeMetrics extracted from the parsed response text with the given nodeName
\* and podName.
C22_FetchResolvesNullOrMetrics ==
    FetchSettled =>
        /\ fetchOutcome[1].state = "fulfilled"
        /\ (RequestFailed \/ ~ResponseIsString) => fetchOutcome[1].value = <<>>
        /\ ResponseIsString =>
              /\ Len(fetchOutcome[1].value) = 1
              /\ fetchOutcome[1].value[1] =
                    extractGpuNodeMetrics(
                        AsStrings(parsePrometheusText(fetchRaw[1].value.lines)),
                        fetchArgs.nodeName, fetchArgs.podName)

\* A text with the active and total counters of one engine: the result is a
\* metrics object for the given node and pod with one utilization entry.
C22_Witness ==
    /\ FetchSettled
    /\ ResponseIsString
    /\ fetchRaw[1].value.lines = <<TotalLine, ActiveLine>>
    /\ fetchArgs.nodeName = "node-b" /\ fetchArgs.podName = "intel-gpu-plugin-a"
    /\ fetchOutcome[1].value[1].nodeName = "node-b"
    /\ fetchOutcome[1].value[1].podName = "intel-gpu-plugin-a"
    /\ Len(fetchOutcome[1].value[1].engineUtilization) = 1
    /\ fetchOutcome[1].value[1].engineUtilization[1].card = "card0"
    /\ fetchOutcome[1].value[1].boostFreqMhz = <<>>

----------------------------------------------------------------------------
(***************************************************************************)
(* Properties of fetchAsync under failing requests.  settled[1] is the     *)
(* outcome of the GpuDevicePlugin request of the latest run and            *)
(* settled[k + 1] that of its k-th plugin-pod query.                       *)
(***************************************************************************)
Latest == runs[Len(runs)]

IsListAnswer(resp) ==
    /\ ~resp.threw
    /\ "fields" \in DOMAIN resp.value
    /\ "items" \in DOMAIN resp.value.fields
    /\ "items" \in DOMAIN resp.value.fields["items"]

ItemsOf(resp) == resp.value.fields["items"].items

\* C23: a failing request of fetchAsync is absorbed.  When the GpuDevicePlugin
\* request fails, crdAvailable is false and devicePlugins is empty, and the three
\* plugin-pod queries are issued one after the other all the same; when a
\* plugin-pod query fails, the plugin pods returned by the other queries are
\* still in pluginPods at the end; asyncError is never set and asyncLoading is
\* false at the end of the run.
C23_RequestFailuresAbsorbed ==
    /\ asyncError = <<>>
    /\ Mounted =>
          /\ (Len(settled) >= 1 /\ settled[1].threw) =>
                crdAvailable = FALSE /\ devicePlugins = <<>>
          /\ Len(settled) \in 1..3 => Latest.pc = "pods" /\ Latest.url = Len(settled)
          /\ Len(settled) = 4 <=> Latest.pc = "done"
          /\ Latest.pc = "done" =>
                /\ asyncLoading = FALSE
                /\ \A k \in 2..4 :
                      IsListAnswer(settled[k]) =>
                          \A i \in 1..Len(ItemsOf(settled[k])) :
                              \A u \in KnownUids :
                                  (HasPluginLabel(ItemsOf(settled[k])[i])
                                      /\ CarriesUid(ItemsOf(settled[k])[i], u)) =>
                                     \E j \in 1..Len(pluginPods) : CarriesUid(pluginPods[j], u)

\* After a refresh, a run whose GpuDevicePlugin request and first and last pod
\* queries were rejected: the pods of the second query are published.
C23_Witness ==
    /\ refreshKey = 1
    /\ Mounted
    /\ Latest.pc = "done"
    /\ settled[1] = Threw /\ settled[2] = Threw /\ settled[4] = Threw
    /\ IsListAnswer(settled[3])
    /\ pluginPods = <<PodDef, PodAbc1>>
    /\ crdAvailable = FALSE
    /\ asyncLoading = FALSE

----------------------------------------------------------------------------
(***************************************************************************)
(* The Map of parsePrometheusText as a grouping of the data lines.  A data *)
(* line is read as the parser splits it: with a label block, the name      *)
(* stands before the first '{' and the value after the last '}'; without,  *)
(* the name stands before the last space and the value after it.           *)
(***************************************************************************)
HasLabelBlock(line) == HasChar(line, "{") /\ lastIndexOf(line, "}") > indexOf(line, "{")

LineName(line) ==
    IF HasLabelBlock(line) THEN SubSeq(line, 1, indexOf(line, "{"))
    ELSE SubSeq(line, 1, lastIndexOf(line, " "))

ValueTail(line) ==
    IF HasLabelBlock(line) THEN Tokens(SubSeq(line, lastIndexOf(line, "}") + 2, Len(line)))
    ELSE Tokens(SubSeq(line, lastIndexOf(line, " ") + 2, Len(line)))

\* A data line the parser accepts: not blank, no comment, split into a name and a
\* tail whose first token is a finite number.
Accepted(rawLine) ==
    LET line == trim(rawLine)
    IN /\ line # <<>>
       /\ line[1] # "#"
       /\ HasLabelBlock(line) \/ HasChar(line, " ")
       /\ ValueTail(line) # <<>>
       /\ IsNumeral(ValueTail(line)[1])

AcceptedAs(n) == {k \in Handled : Accepted(text[k]) /\ LineName(trim(text[k])) = n}

\* C24: the Map is exactly the grouping of the accepted data lines by metric name.
\* A family exists for a name if and only if an accepted data line has that name,
\* its key is its name field, and its samples are one per accepted line of that
\* name, in input order, each with the value of its line; # HELP, # TYPE and other
\* # lines create neither a family nor a sample, so a text of comments only
\* leaves an empty Map.
C24_FamiliesGroupAcceptedLines ==
    /\ DOMAIN families = {LineName(trim(text[k])) : k \in {h \in Handled : Accepted(text[h])}}
    /\ \A n \in DOMAIN families :
          /\ families[n].name = n
          /\ Len(families[n].samples) = Cardinality(AcceptedAs(n))
          /\ Len(sampleLines[n]) = Len(families[n].samples)
          /\ \A i \in 1..Len(sampleLines[n]) :
                /\ sampleLines[n][i] \in AcceptedAs(n)
                /\ i > 1 => sampleLines[n][i - 1] < sampleLines[n][i]
                /\ families[n].samples[i].value =
                      NumeralValue(ValueTail(trim(text[sampleLines[n][i]]))[1])
    /\ (\A k \in Handled : IsComment(text[k])) => families = <<>>

\* '# HELP b g', 'a 1', 'a{x="y"} 3': one family, a, with the samples 1 and 3 in
\* that order, and no family b.
C24_Witness ==
    /\ Len(text) = 3 /\ lineNo = 4
    /\ IsHelpLine(text[1]) /\ NamedBy(text[1]) = <<"b">>
    /\ DOMAIN families = {<<"a">>}
    /\ sampleLines[<<"a">>] = <<2, 3>>
    /\ families[<<"a">>].samples[1].value = 1
    /\ families[<<"a">>].samples[2].value = 3
    /\ HasLabelBlock(text[3])

----------------------------------------------------------------------------
(***************************************************************************)
(* Properties of the effect runs of IntelGpuDataProvider.                  *)
(***************************************************************************)
AsyncState == <<devicePlugins, crdAvailable, pluginPods, asyncError, asyncLoading>>

\* C25: a step of a fetchAsync whose effect run has been cleaned up (cancelled is
\* true, after a refresh or the unmount) writes none of devicePlugins,
\* crdAvailable, pluginPods, asyncError and asyncLoading, whatever request of it
\* settles and however it settles.
C25_CancelledRunWritesNothing ==
    [][\A r \in DOMAIN runs :
          (runs[r].cancelled /\ runs'[r] # runs[r]) => AsyncState' = AsyncState]_vars

\* The run of the mount, cancelled by a refresh before its first list arrived, has
\* run to its end; the state is the one published by the run of the refresh.
C25_Witness ==
    /\ refreshKey = 1
    /\ Len(runs) = 2
    /\ runs[1].cancelled /\ runs[1].pc = "done" /\ runs[1].found = <<>>
    /\ ~runs[2].cancelled /\ runs[2].pc = "done"
    /\ crdAvailable /\ devicePlugins = <<DevicePlugin>>
    /\ pluginPods = <<PodAbc2, PodDef>>
    /\ ~asyncLoading

\* The provider when every request of the latest effect run is answered in the
\* end: the API proxy resolves or rejects each request it was handed.
LatestCrdSettles == runs # <<>> /\ \E resp \in CrdResponses : CrdResponse(Len(runs), resp)
LatestPodsSettle == runs # <<>> /\ \E resp \in RecordedPodResponses : PodsResponse(Len(runs), resp)

SpecSettling ==
    /\ InitRecorded
    /\ [][NextRecorded]_vars
    /\ WF_vars(LatestCrdSettles)
    /\ WF_vars(LatestPodsSettle)

\* C26: when every request of the latest, un-cancelled fetchAsync run settles,
\* asyncLoading becomes false in the end, whichever of the four requests succeed
\* or fail, and once false it stays false until the next refresh.
C26_LoadingEndsAndStaysFalse ==
    /\ \A k \in 0..MaxRefresh :
          (Mounted /\ refreshKey = k) ~> (~asyncLoading \/ ~Mounted \/ refreshKey # k)
    /\ [][(~asyncLoading /\ refreshKey' = refreshKey) => ~asyncLoading']_vars

\* All four requests of the run of a refresh were rejected, and loading is over.
C26_Witness ==
    /\ refreshKey = 1
    /\ Mounted
    /\ settled = <<Threw, Threw, Threw, Threw>>
    /\ ~asyncLoading

IsGpuDevicePluginItem(v) ==
    /\ "fields" \in DOMAIN v
    /\ "kind" \in DOMAIN v.fields
    /\ v.fields["kind"] = "GpuDevicePlugin"

\* C27: when a fetchAsync run has completed un-cancelled, crdAvailable and
\* devicePlugins reflect the GpuDevicePlugin request of that run and nothing
\* older: crdAvailable is true if and only if that request returned a list, and
\* devicePlugins holds exactly the GpuDevicePlugin items of that response, none
\* when crdAvailable is false.
C27_CrdStateReflectsLatestRun ==
    (Mounted /\ Latest.pc = "done") =>
        /\ crdAvailable <=> IsListAnswer(settled[1])
        /\ devicePlugins =
              IF IsListAnswer(settled[1])
              THEN SelectSeq(ItemsOf(settled[1]), IsGpuDevicePluginItem)
              ELSE <<>>

----------------------------------------------------------------------------
(***************************************************************************)
(* fetchGpuMetrics (the hwmon metrics of the Prometheus API, lines 61-156  *)
(* of its module).  The cluster is given by what the API proxy answers:    *)
(* the outcome of the probe of each Prometheus service and of each of the  *)
(* four queries.  A response is [status, result], status being undefined   *)
(* for a null response and result empty when data or data.result is        *)
(* missing; a query result is [metric, value], value being value[1].       *)
(***************************************************************************)
\* Longest result list of a query.
MaxResults == 2

PROMETHEUS_SERVICES ==
    <<"kube-prometheus-stack-prometheus", "prometheus-operated", "prometheus">>

PromResponse(status, result) == [status |-> status, result |-> result]

\* The probes: the first service answers; the first is missing and the second
\* answers; none answers with success.
ProbeOutcomes ==
    { <<Ok(PromResponse("success", <<>>)), Threw, Threw>>,
      <<Threw, Ok(PromResponse("success", <<>>)), Ok(PromResponse("success", <<>>))>>,
      <<Threw, Ok(PromResponse("error", <<>>)), Ok(PromResponse(Undefined, <<>>))>> }

\* Series of node_hwmon_chip_names: the chip 0000:00:02_0 on two instances, and a
\* second chip on the first instance.
ChipSeries ==
    { [chip |-> "0000:00:02_0", instance |-> "10.0.0.1:9100"],
      [chip |-> "0000:00:02_0", instance |-> "10.0.0.2:9100"],
      [chip |-> "0000:03:00_0", instance |-> "10.0.0.1:9100"] }

ChipResults == {[metric |-> m, value |-> <<"1">>] : m \in ChipSeries}

\* Results of the two power queries: each series with a value of its own.
PowerResults ==
    { [metric |-> [chip |-> "0000:00:02_0", instance |-> "10.0.0.1:9100"], value |-> <<"5">>],
      [metric |-> [chip |-> "0000:00:02_0", instance |-> "10.0.0.2:9100"], value |-> <<"9">>],
      [metric |-> [instance |-> "10.0.0.1:9100"], value |-> <<"7">>] }

UnameResults ==
    { <<>>,
      <<[metric |-> [instance |-> "10.0.0.1:9100", nodename |-> "node-a"], value |-> <<"1">>],
        [metric |-> [instance |-> "10.0.0.2:9100", node |-> "node-b"], value |-> <<"1">>]>> }

Clock == {"2026-01-01T00:00:00.000Z"}

\* What the cluster answers to one call of fetchGpuMetrics.
Clusters ==
    [probes : ProbeOutcomes,
     chip : {Ok(PromResponse("success", rs)) : rs \in SeqsUpTo(ChipResults, MaxResults)},
     energy : {Threw, Ok(PromResponse("error", <<>>))}
                 \cup {Ok(PromResponse("success", rs)) : rs \in SeqsUpTo(PowerResults, MaxResults)},
     powerMax : {Ok(PromResponse("success", rs)) : rs \in SeqsUpTo(PowerResults, 1)},
     uname : {Ok(PromResponse("success", rs)) : rs \in UnameResults}]

\* `/api/v1/namespaces/${namespace}/services/${service}:${port}/proxy`
BasePath(service) == "/api/v1/namespaces/monitoring/services/" \o service \o ":9090/proxy"

\* The loop of findPrometheusPath from service k on: <<basePath>>, or <<>> for null.
RECURSIVE FindPathFrom(_, _)
FindPathFrom(probes, k) ==
    IF k > Len(PROMETHEUS_SERVICES) THEN <<>>
    ELSE IF ~probes[k].threw /\ probes[k].value.status = "success"
         THEN <<BasePath(PROMETHEUS_SERVICES[k])>>
    ELSE FindPathFrom(probes, k + 1)

findPrometheusPath(probes) == FindPathFrom(probes, 1)

\* queryPrometheus, resp being the outcome of its request.
queryPrometheus(resp) ==
    IF resp.threw THEN Threw
    ELSE IF resp.value.status # "success" THEN Ok(<<>>)
    ELSE Ok(resp.value.result)

Truthy(v) == v # Undefined /\ v # ""

\* The Map built by `for (const r of results) { if (chip) map.set(chip, parseFloat(r.value[1])) }`
ChipMap(results) ==
    LET keyed == {j \in 1..Len(results) : Truthy(Get(results[j].metric, "chip"))}
    IN [c \in {results[j].metric["chip"] : j \in keyed} |->
           parseFloat(results[CHOOSE j \in keyed :
                                 /\ results[j].metric["chip"] = c
                                 /\ \A h \in keyed : results[h].metric["chip"] = c => h <= j].value)]

\* The Map instance -> nodename of lines 120-125.
InstanceMap(results) ==
    LET keyed == {j \in 1..Len(results) : Truthy(Get(results[j].metric, "instance"))}
    IN [i \in {results[j].metric["instance"] : j \in keyed} |->
           LET r == results[CHOOSE j \in keyed :
                               /\ results[j].metric["instance"] = i
                               /\ \A h \in keyed : results[h].metric["instance"] = i => h <= j]
           IN Nullish(Nullish(Get(r.metric, "nodename"), Get(r.metric, "node")), i)]

\* map.has(key) ? map.get(key)! : null
GetOrNull(map, key) == IF key \in DOMAIN map THEN <<map[key]>> ELSE <<>>

\* The callback of chipResults.map, lines 142-150.
ChipEntry(r, instanceToNode, chipToPower, chipToMaxPower) ==
    LET chip == Nullish(Get(r.metric, "chip"), "")
        instance == Nullish(Get(r.metric, "instance"), "")
    IN [nodeName |-> IF instance \in DOMAIN instanceToNode THEN instanceToNode[instance]
                     ELSE instance,
        chip |-> chip,
        instance |-> instance,
        powerWatts |-> GetOrNull(chipToPower, chip),
        powerMaxWatts |-> GetOrNull(chipToMaxPower, chip)]

\* fetchGpuMetrics() against the cluster c, now being the clock reading of line 154.
fetchGpuMetrics(c, now) ==
    IF findPrometheusPath(c.probes) = <<>> THEN Fulfilled(<<>>)
    ELSE LET chipResults == queryPrometheus(c.chip)
             energyRateResults == queryPrometheus(c.energy)
             powerMaxResults == queryPrometheus(c.powerMax)
             unameResults == queryPrometheus(c.uname)
         IN IF chipResults.threw \/ energyRateResults.threw \/ powerMaxResults.threw
                  \/ unameResults.threw
            THEN Rejected
            ELSE Fulfilled(<<[chips |->
                                [i \in 1..Len(chipResults.value) |->
                                    ChipEntry(chipResults.value[i],
                                              InstanceMap(unameResults.value),
                                              ChipMap(energyRateResults.value),
                                              ChipMap(powerMaxResults.value))],
                              fetchedAt |-> now]>>)

InitHwmon ==
    /\ cluster \in Clusters
    /\ gpuMetrics = <<>>
    /\ FetchIdle /\ MetricsPageIdle
    /\ NodeIdle /\ PluginIdle /\ ExtractIdle /\ ParseIdle
    /\ CallsIdle /\ NodeInfoIdle /\ PodIdle /\ PredicatesIdle /\ ProviderIdle /\ PagesIdle

\* One call of fetchGpuMetrics, from the probes to the settlement of its promise.
CallFetchGpuMetrics ==
    /\ gpuMetrics = <<>>
    /\ \E now \in Clock : gpuMetrics' = <<fetchGpuMetrics(cluster, now)>>
    /\ UNCHANGED <<cluster, fetchVars, metricsPageVars, nodeVars, pluginVars, extractVars,
                   parseVars, callVars, nodeInfoVars, podVars, predicateVars, providerVars,
                   pageVars>>

NextHwmon == CallFetchGpuMetrics

SpecHwmon == InitHwmon /\ [][NextHwmon]_vars

\* The results of a power query of the cluster, as Prometheus returned them.
EnergyOf == IF cluster.energy.threw THEN <<>> ELSE cluster.energy.value.result
PowerMaxOf == cluster.powerMax.value.result

\* The results for the series (chip, instance) of an entry.
OwnResults(results, entry) ==
    {j \in 1..Len(results) :
        /\ "chip" \in DOMAIN results[j].metric /\ results[j].metric["chip"] = entry.chip
        /\ "instance" \in DOMAIN results[j].metric
        /\ results[j].metric["instance"] = entry.instance}

FromOwnSeries(reading, results, entry) ==
    IF OwnResults(results, entry) = {} THEN reading = <<>>
    ELSE \E j \in OwnResults(results, entry) :
            /\ reading # <<>>
            /\ reading[1].finite
            /\ reading[1].num = NumeralValue(results[j].value)

\* C29: powerWatts and powerMaxWatts of a returned chip entry come from a query
\* result with the chip and the instance of that entry: two instances that report
\* the same chip identifier get each their own value, and an entry without a
\* result for its own (chip, instance) gets null.
C29_PowerFromOwnChipAndInstance ==
    (gpuMetrics # <<>> /\ gpuMetrics[1].state = "fulfilled" /\ gpuMetrics[1].value # <<>>) =>
        \A i \in 1..Len(gpuMetrics[1].value[1].chips) :
            LET entry == gpuMetrics[1].value[1].chips[i]
            IN /\ FromOwnSeries(entry.powerWatts, EnergyOf, entry)
               /\ FromOwnSeries(entry.powerMaxWatts, PowerMaxOf, entry)

----------------------------------------------------------------------------
(***************************************************************************)
(* MetricsPage: doFetch (lines 186-200) and the effect and the button that *)
(* call it (lines 202-206 and 216-218).  The effect runs whenever the      *)
(* loading flag of the context turns false; the button is rendered when    *)
(* the context is not loading and is disabled while fetching is true.      *)
(***************************************************************************)
\* Number of doFetch calls of a behaviour.
MaxFetches == 3

Reachable(chips, energy) ==
    [probes |-> <<Ok(PromResponse("success", <<>>)), Threw, Threw>>,
     chip |-> Ok(PromResponse("success", chips)),
     energy |-> energy,
     powerMax |-> Ok(PromResponse("success", <<>>)),
     uname |-> Ok(PromResponse("success", <<>>))]

\* The clusters the page is opened on: without Prometheus, with a failing query,
\* without chips, and with one chip.
PageClusters ==
    { [Reachable(<<>>, Threw) EXCEPT
          !.probes = <<Threw, Ok(PromResponse("error", <<>>)), Ok(PromResponse(Undefined, <<>>))>>],
      Reachable(<<>>, Threw),
      Reachable(<<>>, Ok(PromResponse("success", <<>>))),
      Reachable(<<[metric |-> [chip |-> "0000:00:02_0", instance |-> "10.0.0.1:9100"],
                   value |-> <<"1">>]>>,
                Ok(PromResponse("success", <<>>))) }

GpuMetricsOutcomes == {fetchGpuMetrics(c, now) : c \in PageClusters, now \in Clock}

UNREACHABLE ==
    "Could not reach Prometheus. Ensure kube-prometheus-stack is installed in the monitoring namespace."

InitMetricsPage ==
    /\ ctxLoading = TRUE
    /\ metrics = <<>>
    /\ fetchError = <<>>
    /\ fetching = FALSE
    /\ pending = 0
    /\ completed = <<>>
    /\ FetchIdle /\ HwmonIdle
    /\ NodeIdle /\ PluginIdle /\ ExtractIdle /\ ParseIdle
    /\ CallsIdle /\ NodeInfoIdle /\ PodIdle /\ PredicatesIdle /\ ProviderIdle /\ PagesIdle

\* doFetch() up to its await (lines 187-190).
StartFetch ==
    /\ Len(completed) + pending < MaxFetches
    /\ fetching' = TRUE
    /\ fetchError' = <<>>
    /\ pending' = pending + 1
    /\ UNCHANGED <<metrics, completed>>

\* The context has loaded: the effect of lines 202-206 calls doFetch.
ContextLoaded ==
    /\ ctxLoading
    /\ ctxLoading' = FALSE
    /\ StartFetch
    /\ UNCHANGED <<fetchVars, hwmonVars, nodeVars, pluginVars, extractVars, parseVars, callVars,
                   nodeInfoVars, podVars, predicateVars, providerVars, pageVars>>

\* The lists of the context are fetched again (a change of the cluster context):
\* loading = asyncLoading || !allNodes || !allPods turns true.
ContextReloads ==
    /\ ~ctxLoading
    /\ ctxLoading' = TRUE
    /\ UNCHANGED <<metrics, fetchError, fetching, pending, completed, fetchVars, hwmonVars,
                   nodeVars, pluginVars, extractVars, parseVars, callVars, nodeInfoVars, podVars,
                   predicateVars, providerVars, pageVars>>

\* A click on the Refresh button.
ClickRefresh ==
    /\ ~ctxLoading
    /\ ~fetching
    /\ StartFetch
    /\ UNCHANGED <<ctxLoading, fetchVars, hwmonVars, nodeVars, pluginVars, extractVars,
                   parseVars, callVars, nodeInfoVars, podVars, predicateVars, providerVars,
                   pageVars>>

\* fetchGpuMetrics of one pending doFetch call settles and the call runs to its
\* end (lines 190-199).
FetchSettles(outcome) ==
    /\ pending > 0
    /\ pending' = pending - 1
    /\ completed' = Append(completed, outcome)
    /\ IF outcome.state = "rejected"
       THEN /\ fetchError' = <<"request failed">>
            /\ UNCHANGED metrics
       ELSE /\ metrics' = outcome.value
            /\ IF outcome.value = <<>> THEN fetchError' = <<UNREACHABLE>>
               ELSE UNCHANGED fetchError
    /\ fetching' = FALSE
    /\ UNCHANGED <<ctxLoading, fetchVars, hwmonVars, nodeVars, pluginVars, extractVars,
                   parseVars, callVars, nodeInfoVars, podVars, predicateVars, providerVars,
                   pageVars>>

NextMetricsPage ==
    \/ ContextLoaded
    \/ ContextReloads
    \/ ClickRefresh
    \/ \E outcome \in GpuMetricsOutcomes : FetchSettles(outcome)

SpecMetricsPage == InitMetricsPage /\ [][NextMetricsPage]_vars

\* The outcome of the doFetch call that completes in the step.
JustCompleted == completed'[Len(completed')]

\* C28: at the completion of every doFetch call fetching is false, fetchError is
\* non-null exactly when fetchGpuMetrics resolved to null or rejected, and when it
\* resolved to a metrics object metrics holds that object and fetchError is null.
C28_ErrorIffNullOrRejected ==
    [][Len(completed') > Len(completed) =>
          /\ fetching' = FALSE
          /\ fetchError' # <<>> <=>
                (JustCompleted.state = "rejected" \/ JustCompleted.value = <<>>)
          /\ (JustCompleted.state = "fulfilled" /\ JustCompleted.value # <<>>) =>
                metrics' = JustCompleted.value /\ fetchError' = <<>>]_vars

----------------------------------------------------------------------------
(***************************************************************************)
(* getPodGpuRequests against isGpuRequestingPod: the pods the overview     *)
(* counts as using a GPU (OverviewPage.tsx lines 104-113) are among the    *)
(* pods the context lists as GPU pods.                                     *)
(***************************************************************************)
\* The record getPodGpuRequests(pod) returned.
RequestsReturned == requests # NoResult /\ ~requests[1].threw

\* C30: every key of getPodGpuRequests(pod) starts with gpu.intel.com/, and when
\* the result is not empty isGpuRequestingPod(pod) is true.
C30_RequestsImplyRequesting ==
    RequestsReturned =>
        /\ \A k \in DOMAIN requests[1].value : IsGpuKey(k)
        /\ (DOMAIN requests[1].value # {} /\ requesting # NoResult) =>
              ~requesting[1].threw /\ requesting[1].value

\* A pod with GPU and other request keys in two containers: the result has the GPU
\* keys only and the pod is classified true.
C30_Witness ==
    /\ RequestsReturned
    /\ requesting # NoResult /\ ~requesting[1].threw /\ requesting[1].value
    /\ Cardinality(DOMAIN requests[1].value) = 2
    /\ \E i \in 1..Len(AllListed) :
          \E k \in DOMAIN PartOf(AllListed[i], "requests") : ~IsGpuKey(k)

====
